---- MODULE Spec2Model ----
(***************************************************************************)
(* A model of the news-storyteller repository: the Agent/Task/Crew         *)
(* pipeline (lib/ai-agents.ts, lib/crewai.ts), the narration route with    *)
(* its file cache (app/api/crewai-narrator/route.ts), the news service     *)
(* with its listing cache (lib/news-service.ts, lib/cache.ts), and the     *)
(* story cache (lib/storyCache.ts) with the storyteller route              *)
(* (app/api/storyteller/route.ts).                                         *)
(*                                                                         *)
(* Strings of the program are TLA+ strings.  Every `await` of the source   *)
(* is a step boundary: the code between two awaits is one action.          *)
(***************************************************************************)
EXTENDS Integers, Sequences, FiniteSets, TLC

\* The concurrent callers (HTTP requests, library callers) of the model.
Procs == {"p1", "p2"}

(***************************************************************************)
(* Agent / Task / Crew                                                     *)
(***************************************************************************)

\* How many crews are constructed in one behaviour.
MaxRuns == 3

\* The texts a chat completion may carry; a completion may also carry no
\* content at all (an empty tuple below).
Texts == {"h", "s"}

\* response.choices[0]?.message?.content: absent (<<>>) or a text (<<t>>).
Completions == {<<>>} \cup {<<t>> : t \in Texts}

\* The errors the completion API may throw.
Errors == {"E1", "E2"}

\* AiAgentsPipeline with the narration task declared first in the crew.
AiAgentsPipelineNarrationFirst ==
    [tasks   |-> <<"roaldDahlTask", "historyTask", "summaryTask">>,
     context |-> [historyTask   |-> <<>>,
                  summaryTask   |-> <<>>,
                  roaldDahlTask |-> <<"historyTask", "summaryTask">>]]

\* initializeCrew of lib/ai-agents.ts: three tasks, the narration task
\* takes the history and the summary task as context.
AiAgentsPipeline ==
    [tasks   |-> <<"historyTask", "summaryTask", "roaldDahlTask">>,
     context |-> [historyTask   |-> <<>>,
                  summaryTask   |-> <<>>,
                  roaldDahlTask |-> <<"historyTask", "summaryTask">>]]

\* initializeCrew of lib/crewai.ts: two tasks, the narration task takes the
\* history task as context.
CrewAiPipeline ==
    [tasks   |-> <<"historyTask", "tolstoyTask">>,
     context |-> [historyTask |-> <<>>,
                  tolstoyTask |-> <<"historyTask">>]]

Pipelines == {AiAgentsPipeline, CrewAiPipeline}

VARIABLES
    crew,       \* crew[p]: the Crew object caller p holds, with its tasks
    calls       \* calls[p]: the completion calls p's crew made, in order

crewVars == <<crew, calls>>

\* No crew constructed (or the last one was discarded).
NoCrew == [state |-> "None"]

\* Array.prototype.join("\n") over the mapped context tasks.
RECURSIVE JoinLines(_)
JoinLines(lines) ==
    IF lines = <<>> THEN ""
    ELSE IF Len(lines) = 1 THEN lines[1]
    ELSE lines[1] \o "\n" \o JoinLines(Tail(lines))

\* ContextStr with the context tasks taken last to first.
ContextStrReversed(c, task) ==
    LET ctx == c.context[task]
        n   == Len(ctx)
    IN  JoinLines([i \in 1..n |->
                      "Previous task result: " \o c.output[ctx[n + 1 - i]]])

\* Task.execute, the context string: each context task's output behind
\* "Previous task result: ", joined by newlines, in context-list order.
ContextStr(c, task) ==
    LET ctx == c.context[task]
    IN  JoinLines([i \in 1..Len(ctx) |->
                      "Previous task result: " \o c.output[ctx[i]]])

\* ResultOf of an execute that answers a completion without content with a
\* notice of its own.
ResultOfNotice(completion) ==
    IF completion = <<>> THEN "No response" ELSE completion[1]

\* Agent.execute, the result of a completion: content || "".
ResultOf(completion) ==
    IF completion = <<>> THEN "" ELSE completion[1]

\* LoopTask walking the task list from its end.
LoopTaskReversed(c) == c.tasks[Len(c.tasks) + 1 - c.idx]

\* The task the for-loop of Crew.kickoff is at.
LoopTask(c) == c.tasks[c.idx]

\* initializeCrew: new Task(...) per task, every output "", and new Crew.
NewCrew(pipeline) ==
    [state       |-> "Created",
     tasks       |-> pipeline.tasks,
     context     |-> pipeline.context,
     output      |-> [t \in DOMAIN pipeline.context |-> ""],
     idx         |-> 1,
     finalOutput |-> "",
     error       |-> "",
     result      |-> ""]

\* Task.execute up to its await, for the task the loop is at: the context
\* string is built and Agent.execute issues the completion call with it.
IssuedCall(c) ==
    [task    |-> LoopTask(c),
     context |-> ContextStr(c, LoopTask(c)),
     status  |-> "pending",
     result  |-> "",
     error   |-> ""]

\* AtLoopHead of a kickoff that returns the first task's output.
AtLoopHeadFirst(c) ==
    IF c.idx <= Len(c.tasks)
    THEN [c EXCEPT !.state = "Running"]
    ELSE [c EXCEPT !.state = "Completed", !.result = c.output[c.tasks[1]]]

\* The loop of kickoff at its head: suspended in the await of the next
\* task's call, or past the last task, where kickoff returns finalOutput.
AtLoopHead(c) ==
    IF c.idx <= Len(c.tasks)
    THEN [c EXCEPT !.state = "Running"]
    ELSE [c EXCEPT !.state = "Completed", !.result = c.finalOutput]

\* The calls log after the loop head: the call of the next task, if any.
LogAtLoopHead(c, log) ==
    IF c.idx <= Len(c.tasks) THEN Append(log, IssuedCall(c)) ELSE log

\* kickoff before its loop: let finalOutput = "".
LoopEntered(c) == [c EXCEPT !.finalOutput = "", !.idx = 1]

\* crew.kickoff() is called: finalOutput = "", the loop is entered and runs
\* up to the await of the first task's completion call.
Kickoff(p) ==
    LET c == LoopEntered(crew[p]) IN
    /\ crew[p].state = "Created"
    /\ crew' = [crew EXCEPT ![p] = AtLoopHead(c)]
    /\ calls' = [calls EXCEPT ![p] = LogAtLoopHead(c, <<>>)]

\* AgentReturn over Task objects that every crew shares: the output is
\* stored in the task of that name of every crew.
AgentReturnSharedTasks(p, completion) ==
    LET n == Len(calls[p])
        t == calls[p][n].task
        c == [crew[p] EXCEPT !.output[t] = ResultOf(completion),
                             !.finalOutput = ResultOf(completion),
                             !.idx = @ + 1]
        log == [calls[p] EXCEPT ![n].status = "returned",
                                ![n].result = ResultOf(completion)]
    IN
    /\ crew[p].state = "Running"
    /\ crew' = [q \in Procs |->
                  IF q = p THEN AtLoopHead(c)
                  ELSE IF crew[q] # NoCrew /\ t \in DOMAIN crew[q].output
                  THEN [crew[q] EXCEPT !.output[t] = ResultOf(completion)]
                  ELSE crew[q]]
    /\ calls' = [calls EXCEPT ![p] = LogAtLoopHead(c, log)]

\* The pending completion call returns: Agent.execute returns
\* content || "", Task.execute stores it in this.output, kickoff in
\* finalOutput, and the loop goes to its next turn.
AgentReturn(p, completion) ==
    LET n == Len(calls[p])
        t == calls[p][n].task
        c == [crew[p] EXCEPT !.output[t] = ResultOf(completion),
                             !.finalOutput = ResultOf(completion),
                             !.idx = @ + 1]
        log == [calls[p] EXCEPT ![n].status = "returned",
                                ![n].result = ResultOf(completion)]
    IN
    /\ crew[p].state = "Running"
    /\ crew' = [crew EXCEPT ![p] = AtLoopHead(c)]
    /\ calls' = [calls EXCEPT ![p] = LogAtLoopHead(c, log)]

\* AgentThrow with a catch that logs and does not rethrow: the loop goes on.
AgentThrowSwallowed(p, e) ==
    LET n == Len(calls[p])
        c == [crew[p] EXCEPT !.idx = @ + 1]
        log == [calls[p] EXCEPT ![n].status = "threw", ![n].error = e]
    IN
    /\ crew[p].state = "Running"
    /\ crew' = [crew EXCEPT ![p] = AtLoopHead(c)]
    /\ calls' = [calls EXCEPT ![p] = LogAtLoopHead(c, log)]

\* AgentThrow of a Task.execute that stores the error in this.output.
AgentThrowStoresError(p, e) ==
    LET n == Len(calls[p]) IN
    /\ crew[p].state = "Running"
    /\ crew' = [crew EXCEPT ![p].state = "Failed", ![p].error = e,
                            ![p].output[calls[p][n].task] = e]
    /\ calls' = [calls EXCEPT ![p][n].status = "threw",
                              ![p][n].error = e]

\* AgentThrow of a kickoff that returns the output so far when a task fails.
AgentThrowReturnsPartial(p, e) ==
    LET n == Len(calls[p]) IN
    /\ crew[p].state = "Running"
    /\ crew' = [crew EXCEPT ![p].state = "Completed",
                            ![p].result = crew[p].finalOutput]
    /\ calls' = [calls EXCEPT ![p][n].status = "threw",
                              ![p][n].error = e]

\* The pending completion call throws: Agent.execute rethrows,
\* Task.execute leaves this.output alone, kickoff logs and rethrows the
\* same error.
AgentThrow(p, e) ==
    LET n == Len(calls[p]) IN
    /\ crew[p].state = "Running"
    /\ crew' = [crew EXCEPT ![p].state = "Failed", ![p].error = e]
    /\ calls' = [calls EXCEPT ![p][n].status = "threw",
                              ![p][n].error = e]

(***************************************************************************)
(* The narration route, app/api/crewai-narrator/route.ts                   *)
(***************************************************************************)

\* How many requests the route receives in one behaviour.
MaxRequests == 2

\* articleContent.substring(0, 500) of getCacheKey.
PreviewLen == 500

\* articleData.content.substring(0, 1000) of the result's article_content.
ArticlePreviewLen == 1000

RECURSIVE Repeat(_, _)
Repeat(s, n) ==
    IF n = 0 THEN ""
    ELSE IF n % 2 = 1 THEN s \o Repeat(s, n - 1)
    ELSE LET half == Repeat(s, n \div 2) IN half \o half

\* s.substring(0, n)
Substring0(s, n) == IF Len(s) <= n THEN s ELSE SubSeq(s, 1, n)

\* The article URLs requested.  The second is the first followed by "|".
URLs == {"http://a/", "http://a/|"}

\* The news_link of a request: a URL, or "" for a request without one.
Links == URLs \cup {""}

\* The texts scrapeArticle may extract from the page at a URL.
ContentsOf(u) == IF u = "http://a/" THEN {"|", "x"} ELSE {"|"}

\* An article text of 500 characters.
LongText == Repeat("x", PreviewLen)

\* The optional articleContent arguments getCacheKey is tried on, among
\* them texts that differ only after, and only at, their 500th character.
KeyContents ==
    {<<>>, <<"">>, <<"|">>, <<"x">>,
     <<LongText>>, <<LongText \o "y">>, <<LongText \o "x">>,
     <<Substring0(LongText, PreviewLen - 1) \o "y">>}

\* String.prototype.charCodeAt for the characters of the URLs and texts.
CharCode(ch) ==
    CASE ch = "h" -> 104 [] ch = "t" -> 116 [] ch = "p" -> 112
      [] ch = ":" -> 58  [] ch = "/" -> 47  [] ch = "a" -> 97
      [] ch = "|" -> 124 [] ch = "x" -> 120 [] ch = "y" -> 121

\* One turn of the hash loop on a 32-bit value held as <<high, low>> 16-bit
\* halves of its two's complement bits: hash = (hash << 5) - hash + char,
\* then hash & hash (ToInt32), that is 31 * hash + char modulo 2^32.
HashStep(h, c) ==
    LET t == 31 * h[2] + c
    IN  <<(31 * h[1] + (t \div 65536)) % 65536, t % 65536>>

\* The loop over combined[i..j], left to right.
RECURSIVE HashRange(_, _, _, _)
HashRange(s, i, j, h) ==
    IF i > j THEN h
    ELSE LET g == HashStep(h, CharCode(SubSeq(s, i, i)))
         IN  IF g[1] >= 0 THEN HashRange(s, i + 1, j, g) ELSE g

\* The loop over combined[i..], taken 25 characters at a time (this only
\* bounds the depth of the recursion).
RECURSIVE HashFrom(_, _, _)
HashFrom(s, i, h) ==
    IF i > Len(s) THEN h
    ELSE LET j == IF i + 24 <= Len(s) THEN i + 24 ELSE Len(s)
             g == HashRange(s, i, j, h)
         IN  IF g[1] >= 0 THEN HashFrom(s, j + 1, g) ELSE g

\* Math.abs of the signed 32-bit value; the halves of the result (the
\* absolute value of -2^31 is 2^31).
MathAbs(h) ==
    IF h[1] < 32768 THEN h
    ELSE <<(65535 - h[1] + (IF h[2] = 0 THEN 1 ELSE 0)) % 65536,
           (65536 - h[2]) % 65536>>

\* getCacheKey with the whole content in place of its first 500 characters.
getCacheKeyWholeContent(newsLink, articleContent) ==
    LET contentPreview ==
            IF articleContent = <<>> THEN "" ELSE articleContent[1]
        combined == newsLink \o "|" \o contentPreview
    IN  MathAbs(HashFrom(combined, 1, <<0, 0>>))

\* getCacheKey(newsLink, articleContent?): the optional content is <<>>
\* when absent and <<text>> when given.  The key <<high, low>> stands for
\* the file name narration_<high * 65536 + low>.json.
getCacheKey(newsLink, articleContent) ==
    LET contentPreview ==
            IF articleContent = <<>> THEN ""
            ELSE Substring0(articleContent[1], PreviewLen)
        combined == newsLink \o "|" \o contentPreview
    IN  MathAbs(HashFrom(combined, 1, <<0, 0>>))

\* The keys of every link with and without every text, computed once.
KeyTable ==
    [u \in URLs |->
        [oc \in {<<>>} \cup {<<c>> : c \in ContentsOf(u)} |-> getCacheKey(u, oc)]]

\* getCacheKey(newsLink, articleContent) looked up in KeyTable.
CacheKey(newsLink, articleContent) == KeyTable[newsLink][articleContent]

VARIABLES
    web,        \* web[u]: the article text now on the page at u
    files,      \* the cache directory: file key -> parsed JSON record
    pc,         \* pc[p]: where p's request handler is
    req,        \* req[p]: the request p handles, with what its handler did:
                \* found (what the lookup returned), readError (the lookup
                \* threw), scrapes and crews (scrapeArticle and
                \* initializeCrew calls made), kickoff (what crew.kickoff()
                \* returned, or what it threw and the output of the last
                \* task that had returned), saves (saveToCacheWithKey calls
                \* made) and saveThrew (its write threw)
    article,    \* article[p]: the articleData p's handler scraped
    resp,       \* resp[p]: the response p's handler returned
    expect,     \* expect[p]: the stored result for the request's URL and
                \* its current text when the request arrived (<<>>: none)
    lastKey,    \* lastKey[p]: the arguments and the result of the last
                \* getCacheKey call of caller p in SpecKey
    nreq        \* the number of requests received so far

narratorVars == <<web, files, pc, req, article, resp, expect, lastKey, nreq>>

NoReq == [method |-> "none"]
NoResp == [status |-> 0]
NoArticle == [success |-> FALSE]

\* The result's article_content.
ArticlePreview(content) ==
    Substring0(content, ArticlePreviewLen)
        \o (IF Len(content) > ArticlePreviewLen THEN "..." ELSE "")

\* getCachedNarration that, finding no file under the key of the link,
\* returns a record of another file of the directory.
getCachedNarrationAnyFile(newsLink, readThrows) ==
    LET cacheKey == CacheKey(newsLink, <<>>)
    IN  IF readThrows \/ DOMAIN files = {} THEN <<>>
        ELSE IF cacheKey \in DOMAIN files THEN <<files[cacheKey]>>
        ELSE <<files[CHOOSE k \in DOMAIN files : TRUE]>>

\* getCachedNarration(newsLink): the file under the key of the link alone,
\* parsed; <<>> stands for {success: false}.  readThrows: readFileSync or
\* JSON.parse throws, which the catch turns into {success: false}.
getCachedNarration(newsLink, readThrows) ==
    LET cacheKey == CacheKey(newsLink, <<>>)
    IN  IF cacheKey \in DOMAIN files /\ ~readThrows
        THEN <<files[cacheKey]>>
        ELSE <<>>

\* Whether the lookup of newsLink ends in the catch of getCachedNarration.
ReadFails(newsLink, readThrows) ==
    CacheKey(newsLink, <<>>) \in DOMAIN files /\ readThrows

\* IsHit of a handler that never takes the early return.
IsHitNever(cachedResult) == FALSE

\* cachedResult.success && cachedResult.data
IsHit(cachedResult) == cachedResult # <<>>

\* { ...cachedResult.data, cached: true }
CachedBody(data) == [cached |-> TRUE] @@ data

\* The stored result of a successful POST for u with the text now at u.
StoredFor(u) ==
    IF u \notin URLs THEN <<>>
    ELSE LET k == CacheKey(u, <<web[u]>>)
         IN  IF /\ k \in DOMAIN files
                /\ files[k].news_link = u
                /\ files[k].article_content = ArticlePreview(web[u])
             THEN <<files[k]>>
             ELSE <<>>

\* What the completion API answers the agent of a task of a request; the
\* narration agent may be answered without content.  Or the call throws.
AnswersTo(task) ==
    IF task = "historyTask" THEN {<<"h">>}
    ELSE IF task = "summaryTask" THEN {<<"s">>}
    ELSE {<<>>, <<"n">>}

NarratorErrors == {"E1"}

\* The task whose completion call p's crew awaits.
PendingTask(p) == calls[p][Len(calls[p])].task

\* scrapeArticle(url): the page's text now, an empty text, or the failure
\* record of its catch.
ScrapeOutcomes == {"ok", "empty", "fail"}

scrapeArticle(url, outcome) ==
    IF outcome = "fail"
    THEN [title |-> "News Article", content |-> "Unable to fetch article content",
          url |-> url, success |-> FALSE]
    ELSE [title |-> "T",
          content |-> IF outcome = "ok" THEN web[url] ELSE "",
          url |-> url, success |-> TRUE]

\* A new request reaches p: what is reset for it.
Arrive(p, method, news_link) ==
    /\ pc[p] \in {"idle", "done"}
    /\ nreq < MaxRequests
    /\ nreq' = nreq + 1
    /\ expect' = [expect EXCEPT ![p] = StoredFor(news_link)]
    /\ article' = [article EXCEPT ![p] = NoArticle]
    /\ crew' = [crew EXCEPT ![p] = NoCrew]
    /\ calls' = [calls EXCEPT ![p] = <<>>]

\* POST up to its first await: the news_link check, the cache lookup and
\* either the early return or the call of scrapeArticle.
PostStart(p, news_link, readThrows) ==
    LET cachedResult == getCachedNarration(news_link, readThrows)
        r == [method |-> "POST", news_link |-> news_link,
              found |-> IF news_link = "" THEN <<>> ELSE cachedResult,
              readError |-> news_link # "" /\ ReadFails(news_link, readThrows),
              scrapes |-> 0, crews |-> 0, kickoff |-> <<>>,
              saves |-> 0, saveThrew |-> FALSE]
    IN
    /\ Arrive(p, "POST", news_link)
    /\ IF news_link = ""
       THEN /\ resp' = [resp EXCEPT ![p] =
                          [status |-> 400,
                           body |-> [success |-> FALSE,
                                     details |-> "news_link is required"]]]
            /\ pc' = [pc EXCEPT ![p] = "done"]
            /\ req' = [req EXCEPT ![p] = r]
       ELSE IF IsHit(cachedResult)
       THEN /\ resp' = [resp EXCEPT ![p] =
                          [status |-> 200, body |-> CachedBody(cachedResult[1])]]
            /\ pc' = [pc EXCEPT ![p] = "done"]
            /\ req' = [req EXCEPT ![p] = r]
       ELSE /\ resp' = [resp EXCEPT ![p] = NoResp]
            /\ pc' = [pc EXCEPT ![p] = "scraping"]
            /\ req' = [req EXCEPT ![p] = [r EXCEPT !.scrapes = 1]]
    /\ UNCHANGED <<web, files, lastKey>>

\* The scrape that POST goes on with, whatever scrapeArticle returned.
ScrapeFailedNever(articleData) == FALSE

\* !articleData.success || !articleData.content
ScrapeFailed(articleData) ==
    ~articleData.success \/ articleData.content = ""

\* scrapeArticle returns: the 400 of a failed or empty scrape, or
\* initializeCrew with the scraped content and crew.kickoff() up to the
\* await of the first completion call.
PostScraped(p, outcome) ==
    LET articleData == scrapeArticle(req[p].news_link, outcome) IN
    /\ pc[p] = "scraping"
    /\ article' = [article EXCEPT ![p] = articleData]
    /\ IF ScrapeFailed(articleData)
       THEN /\ resp' = [resp EXCEPT ![p] =
                          [status |-> 400,
                           body |-> [success |-> FALSE,
                                     details |-> "Failed to scrape article content"]]]
            /\ pc' = [pc EXCEPT ![p] = "done"]
            /\ UNCHANGED <<crew, calls, req>>
       ELSE LET c == LoopEntered(NewCrew(AiAgentsPipeline)) IN
            /\ crew' = [crew EXCEPT ![p] = AtLoopHead(c)]
            /\ calls' = [calls EXCEPT ![p] = LogAtLoopHead(c, <<>>)]
            /\ req' = [req EXCEPT ![p].crews = 1]
            /\ pc' = [pc EXCEPT ![p] = "crew"]
            /\ UNCHANGED resp
    /\ UNCHANGED <<web, files, expect, lastKey, nreq>>

\* saveToCacheWithKey that, over an existing record, keeps the narration
\* the record holds and replaces the rest.
saveToCacheWithKeyMerging(cacheKey, data, writeThrows) ==
    IF writeThrows THEN files
    ELSE [k \in DOMAIN files \cup {cacheKey} |->
             IF k # cacheKey THEN files[k]
             ELSE IF cacheKey \in DOMAIN files
             THEN [data EXCEPT !.roald_dahl_narration =
                                   files[cacheKey].roald_dahl_narration]
             ELSE data]

\* saveToCacheWithKey(cacheKey, data): writeFileSync replaces the file;
\* writeThrows: it throws, which the catch logs.
saveToCacheWithKey(cacheKey, data, writeThrows) ==
    IF writeThrows THEN files
    ELSE [k \in DOMAIN files \cup {cacheKey} |->
             IF k = cacheKey THEN data ELSE files[k]]

\* PostNarrated of a handler that a failed save turns into a 500.
PostNarratedSaveFatal(p, writeThrows) ==
    LET news_link == req[p].news_link
        articleData == article[p]
        result == [success |-> TRUE,
                   news_link |-> news_link,
                   title |-> articleData.title \o " - Roald Dahl's Narrative",
                   roald_dahl_narration |-> crew[p].result,
                   article_content |-> ArticlePreview(articleData.content)]
        cacheKey == CacheKey(news_link, <<articleData.content>>)
    IN
    /\ pc[p] = "crew"
    /\ crew[p].state = "Completed"
    /\ files' = saveToCacheWithKey(cacheKey, result, writeThrows)
    /\ resp' = [resp EXCEPT ![p] =
                  IF writeThrows
                  THEN [status |-> 500,
                        body |-> [success |-> FALSE, details |-> "EIO"]]
                  ELSE [status |-> 200, body |-> result]]
    /\ pc' = [pc EXCEPT ![p] = "done"]
    /\ req' = [req EXCEPT ![p].kickoff = <<"returned", crew[p].result>>,
                          ![p].saves = 1, ![p].saveThrew = writeThrows]
    /\ crew' = [crew EXCEPT ![p] = NoCrew]
    /\ calls' = [calls EXCEPT ![p] = <<>>]
    /\ UNCHANGED <<web, article, expect, lastKey, nreq>>

\* crew.kickoff() returned: the result is built, saved under the key of
\* link and content, and returned.  (The result's timestamp is left out;
\* new URL(news_link) does not throw for a link axios could fetch, and
\* the scraped title is never empty.)
PostNarrated(p, writeThrows) ==
    LET news_link == req[p].news_link
        articleData == article[p]
        result == [success |-> TRUE,
                   news_link |-> news_link,
                   title |-> articleData.title \o " - Roald Dahl's Narrative",
                   roald_dahl_narration |-> crew[p].result,
                   article_content |-> ArticlePreview(articleData.content)]
        cacheKey == CacheKey(news_link, <<articleData.content>>)
    IN
    /\ pc[p] = "crew"
    /\ crew[p].state = "Completed"
    /\ files' = saveToCacheWithKey(cacheKey, result, writeThrows)
    /\ resp' = [resp EXCEPT ![p] = [status |-> 200, body |-> result]]
    /\ pc' = [pc EXCEPT ![p] = "done"]
    /\ req' = [req EXCEPT ![p].kickoff = <<"returned", crew[p].result>>,
                          ![p].saves = 1, ![p].saveThrew = writeThrows]
    /\ crew' = [crew EXCEPT ![p] = NoCrew]
    /\ calls' = [calls EXCEPT ![p] = <<>>]
    /\ UNCHANGED <<web, article, expect, lastKey, nreq>>

\* PostFailed of a handler that adds the output so far to its answer.
PostFailedPartial(p) ==
    /\ pc[p] = "crew"
    /\ crew[p].state = "Failed"
    /\ resp' = [resp EXCEPT ![p] =
                  [status |-> 500,
                   body |-> [success |-> FALSE, details |-> crew[p].error,
                             roald_dahl_narration |-> crew[p].finalOutput]]]
    /\ pc' = [pc EXCEPT ![p] = "done"]
    /\ req' = [req EXCEPT ![p].kickoff =
                             <<"threw", crew[p].error, crew[p].finalOutput>>]
    /\ crew' = [crew EXCEPT ![p] = NoCrew]
    /\ calls' = [calls EXCEPT ![p] = <<>>]
    /\ UNCHANGED <<web, files, article, expect, lastKey, nreq>>

\* crew.kickoff() threw: the outer catch answers 500 with the message.
PostFailed(p) ==
    /\ pc[p] = "crew"
    /\ crew[p].state = "Failed"
    /\ resp' = [resp EXCEPT ![p] =
                  [status |-> 500,
                   body |-> [success |-> FALSE, details |-> crew[p].error]]]
    /\ pc' = [pc EXCEPT ![p] = "done"]
    /\ req' = [req EXCEPT ![p].kickoff =
                             <<"threw", crew[p].error, crew[p].finalOutput>>]
    /\ crew' = [crew EXCEPT ![p] = NoCrew]
    /\ calls' = [calls EXCEPT ![p] = <<>>]
    /\ UNCHANGED <<web, files, article, expect, lastKey, nreq>>

\* Get of a handler that stores a placeholder record when the lookup misses.
GetStoresOnMiss(p, news_link, readThrows) ==
    LET cachedResult == getCachedNarration(news_link, readThrows)
        r == [method |-> "GET", news_link |-> news_link,
              found |-> IF news_link = "" THEN <<>> ELSE cachedResult,
              readError |-> news_link # "" /\ ReadFails(news_link, readThrows),
              scrapes |-> 0, crews |-> 0, kickoff |-> <<>>,
              saves |-> 0, saveThrew |-> FALSE]
    IN
    /\ Arrive(p, "GET", news_link)
    /\ req' = [req EXCEPT ![p] = r]
    /\ resp' = [resp EXCEPT ![p] =
                  IF news_link = ""
                  THEN [status |-> 400,
                        body |-> [success |-> FALSE,
                                  details |-> "news_link query parameter is required"]]
                  ELSE IF IsHit(cachedResult)
                  THEN [status |-> 200, body |-> CachedBody(cachedResult[1])]
                  ELSE [status |-> 404,
                        body |-> [success |-> FALSE,
                                  details |-> "Narration not found in cache"]]]
    /\ pc' = [pc EXCEPT ![p] = "done"]
    /\ files' = IF news_link = "" \/ IsHit(cachedResult) THEN files
                ELSE saveToCacheWithKey(CacheKey(news_link, <<>>),
                                        [success |-> FALSE], FALSE)
    /\ UNCHANGED <<web, lastKey>>

\* GET: the news_link check, the cache lookup, the cached record or 404.
Get(p, news_link, readThrows) ==
    LET cachedResult == getCachedNarration(news_link, readThrows)
        r == [method |-> "GET", news_link |-> news_link,
              found |-> IF news_link = "" THEN <<>> ELSE cachedResult,
              readError |-> news_link # "" /\ ReadFails(news_link, readThrows),
              scrapes |-> 0, crews |-> 0, kickoff |-> <<>>,
              saves |-> 0, saveThrew |-> FALSE]
    IN
    /\ Arrive(p, "GET", news_link)
    /\ req' = [req EXCEPT ![p] = r]
    /\ resp' = [resp EXCEPT ![p] =
                  IF news_link = ""
                  THEN [status |-> 400,
                        body |-> [success |-> FALSE,
                                  details |-> "news_link query parameter is required"]]
                  ELSE IF IsHit(cachedResult)
                  THEN [status |-> 200, body |-> CachedBody(cachedResult[1])]
                  ELSE [status |-> 404,
                        body |-> [success |-> FALSE,
                                  details |-> "Narration not found in cache"]]]
    /\ pc' = [pc EXCEPT ![p] = "done"]
    /\ UNCHANGED <<web, files, lastKey>>

\* The article at u is edited.
WebChange(u, c) ==
    /\ web[u] # c
    /\ web' = [web EXCEPT ![u] = c]
    /\ UNCHANGED <<files, pc, req, article, resp, expect, lastKey, nreq>>
    /\ UNCHANGED crewVars

(***************************************************************************)
(* The news listing: one NewsService with its CacheManager                 *)
(* (news-service.ts), called by the news API route and by the scheduler.   *)
(* An operation is suspended at each await; what runs between two awaits   *)
(* is one step.  A file is written, read or removed in one step.           *)
(***************************************************************************)

MaxOps == 2     \* operations started on the service in one behaviour
MaxTime == 2    \* the clock runs from 0 to MaxTime

\* this.maxAge, in ticks of the clock.
maxAge == 1

VARIABLES
    isScrapingInProgress,   \* NewsService.isScrapingInProgress
    cacheFile,              \* news-cache.json
    metadataFile,           \* cache-metadata.json
    now,                    \* Date.now()
    npc,        \* npc[p]: where the operation of p is suspended
    op,         \* op[p]: the operation of p and its local variables
    nres,       \* nres[p]: how the operation of p ended
    nops,       \* operations started so far
    scrapeCount \* listings the scraper has returned so far

newsVars == <<isScrapingInProgress, cacheFile, metadataFile, now, npc, op,
              nres, nops, scrapeCount>>

NoFile == [kind |-> "absent"]

\* A file left behind by a write that failed midway.
Malformed(t) == [kind |-> "malformed", mtime |-> t]

\* news-cache.json as storeNews writes it: the listing id, written at t.
ListingFile(id, t) == [kind |-> "json", id |-> id, mtime |-> t]

\* cache-metadata.json as storeNews writes it for the listing id.
MetadataOf(id) == [kind |-> "json", id |-> id]

NoOp == [kind |-> "none"]
NoRes == [status |-> "none"]

ScrapeErrors == {"fetch failed"}
WriteOutcomes == {"ok", "fail", "torn"}
WriteError == "EIO"

\* The local variables of an operation that starts.  sawScrape records
\* whether a scrape was in flight when it arrived; fbFile is the cache file
\* when the catch of getLatestNews started its fallback, as long as the
\* fallback finds the file to be that, and marked changed afterwards;
\* fbExpired is whether that file was expired then.  cacheAge is the age
\* that let getNews go on to read the file, until it has read it.
NewOp(kind) ==
    [kind |-> kind, sawScrape |-> isScrapingInProgress,
     force |-> FALSE, error |-> <<>>, newsData |-> 0, cacheData |-> 0,
     cacheAge |-> -1, fbFile |-> NoFile, fbExpired |-> FALSE]

\* The operation o when it ends: its local variables are gone.
Ended(o) == [o EXCEPT !.newsData = 0, !.cacheData = 0]

\* if (this.isScrapingInProgress) of a scrapeAndCache that never rejects.
ScrapeRejectedNever(inProgress) == FALSE

\* if (this.isScrapingInProgress) throw new Error('Scraping already in progress')
ScrapeRejected(inProgress) == inProgress

\* The argument of this.cache.getNews in the catch of a getLatestNews that
\* honours expiry in its fallback.
FallbackForceRefreshFalse == FALSE

\* The argument of this.cache.getNews(true) in the catch of getLatestNews.
FallbackForceRefresh == TRUE

\* refreshNews: { ...result, freshlyScraped: result.freshlyScraped || false }
RefreshResult(result) ==
    IF "freshlyScraped" \in DOMAIN result
    THEN result
    ELSE [freshlyScraped |-> FALSE] @@ result

\* The operation of p returns result to its caller.
Return(p, o, result) ==
    /\ npc' = [npc EXCEPT ![p] = "done"]
    /\ op' = [op EXCEPT ![p] = Ended(o)]
    /\ nres' = [nres EXCEPT ![p] =
                  IF o.kind = "refresh" THEN RefreshResult(result)
                  ELSE result]

\* Raise of a getLatestNews that answers a failure with an empty listing.
RaiseReturnsEmpty(p, o, message) ==
    /\ npc' = [npc EXCEPT ![p] = "done"]
    /\ op' = [op EXCEPT ![p] = Ended(o)]
    /\ nres' = [nres EXCEPT ![p] =
                  [status |-> "returned", id |-> 0, fromCache |-> FALSE]]

\* The operation of p fails with message.
Raise(p, o, message) ==
    /\ npc' = [npc EXCEPT ![p] = "done"]
    /\ op' = [op EXCEPT ![p] = Ended(o)]
    /\ nres' = [nres EXCEPT ![p] = [status |-> "raised", message |-> message]]

\* const cacheAge = Date.now() - new Date(stats.mtime).getTime(); -1 stands
\* for none, when stat throws.
CacheAgeOf(file) == IF file.kind = "absent" THEN -1 ELSE now - file.mtime

\* isCacheExpired that takes a listing of age maxAge for expired.
isCacheExpiredAtMaxAge(file) ==
    IF file.kind = "absent" THEN TRUE ELSE CacheAgeOf(file) >= maxAge

\* isCacheExpired that takes no listing for expired, whatever its age.
isCacheExpiredNever(file) == file.kind = "absent"

\* isCacheExpired: cacheAge > this.maxAge, and true when stat throws.
isCacheExpired(file) ==
    IF file.kind = "absent" THEN TRUE ELSE CacheAgeOf(file) > maxAge

\* scrapeAndCache has thrown message: the scheduler's callback logs it; the
\* catch of getLatestNews starts the fallback, this.cache.getNews(true), which
\* awaits pathExists.  file is the cache file at that point.
Caught(p, o, message, file) ==
    IF o.kind = "cron"
    THEN /\ npc' = [npc EXCEPT ![p] = "done"]
         /\ op' = [op EXCEPT ![p] = [Ended(o) EXCEPT !.error = <<message>>]]
         /\ nres' = [nres EXCEPT ![p] = [status |-> "finished"]]
    ELSE /\ npc' = [npc EXCEPT ![p] = "exists"]
         /\ op' = [op EXCEPT ![p] =
                     [o EXCEPT !.force = FallbackForceRefresh,
                               !.error = <<message>>,
                               !.newsData = 0, !.fbFile = file,
                               !.fbExpired = isCacheExpired(file)]]
         /\ nres' = [nres EXCEPT ![p] = NoRes]

\* A call of scrapeAndCache up to its first await: rejected when a scrape is
\* in progress, else the flag is set and the scraper is awaited.
CallScrapeAndCache(p, o) ==
    IF ScrapeRejected(isScrapingInProgress)
    THEN /\ Caught(p, o, "Scraping already in progress", cacheFile)
         /\ UNCHANGED isScrapingInProgress
    ELSE /\ isScrapingInProgress' = TRUE
         /\ npc' = [npc EXCEPT ![p] = "scraping"]
         /\ op' = [op EXCEPT ![p] = o]
         /\ nres' = [nres EXCEPT ![p] = NoRes]

\* getNews has returned null: in the try of getLatestNews a cache miss, which
\* goes on to scrapeAndCache; in its catch the end of the fallback, which
\* throws `Failed to get news: ...`.
GetNewsNull(p, o) ==
    IF o.error = <<>>
    THEN CallScrapeAndCache(p, o)
    ELSE /\ Raise(p, o, "Failed to get news: " \o o.error[1])
         /\ UNCHANGED isScrapingInProgress

\* o, having looked at the cache file in its fallback.
Looked(o) ==
    IF o.error = <<>> \/ cacheFile = o.fbFile THEN o
    ELSE [o EXCEPT !.fbFile = [kind |-> "changed"]]

CanStart(p) == npc[p] \in {"idle", "done"} /\ nops < MaxOps

\* getLatestNews({ forceRefresh }) of the news API, or refreshNews, which
\* calls getLatestNews({ forceRefresh: true }), up to the first await.
GetLatestNews(p, kind, forceRefresh) ==
    /\ CanStart(p)
    /\ kind = "refresh" => forceRefresh
    /\ nops' = nops + 1
    /\ LET o == NewOp(kind) IN
       IF forceRefresh \/ isScrapingInProgress
       THEN CallScrapeAndCache(p, o)
       ELSE /\ npc' = [npc EXCEPT ![p] = "exists"]
            /\ op' = [op EXCEPT ![p] = o]
            /\ nres' = [nres EXCEPT ![p] = NoRes]
            /\ UNCHANGED isScrapingInProgress
    /\ UNCHANGED <<cacheFile, metadataFile, now, scrapeCount>>

\* The scheduler fires: its callback calls scrapeAndCache.
MorningRefresh(p) ==
    /\ CanStart(p)
    /\ nops' = nops + 1
    /\ CallScrapeAndCache(p, NewOp("cron"))
    /\ UNCHANGED <<cacheFile, metadataFile, now, scrapeCount>>

\* scrapeLatestNews (lib/scraper.ts) as scrape n: the listing n of what the
\* category pages hold, or, when no page could be fetched, each failure
\* being caught in the loop, the listing -n, which has no article.
scrapeLatestNews(n, fetched) == IF fetched THEN n ELSE 0 - n

\* totalArticles of a listing.
totalArticles(id) == IF id < 0 THEN 0 ELSE 1

\* scrapeLatestNews returns a listing: storeNews starts and awaits the write
\* of the cache file.
ScrapeListing(p, fetched) ==
    /\ npc[p] = "scraping"
    /\ scrapeCount' = scrapeCount + 1
    /\ op' = [op EXCEPT ![p].newsData =
                             scrapeLatestNews(scrapeCount + 1, fetched)]
    /\ npc' = [npc EXCEPT ![p] = "writeCache"]
    /\ UNCHANGED <<isScrapingInProgress, cacheFile, metadataFile, now, nres,
                   nops>>

\* The scrape fetched its pages and returns their articles.
ScrapeReturns(p) == ScrapeListing(p, TRUE)

\* Every axios.get of the scrape failed: each catch in the loop warns and
\* goes on, and the scrape returns a listing of no article.
ScrapeReturnsEmpty(p) == ScrapeListing(p, FALSE)

\* ScrapeThrows of a scrapeAndCache without its finally block.
ScrapeThrowsKeepsFlag(p, e) ==
    /\ npc[p] = "scraping"
    /\ Caught(p, op[p], e, cacheFile)
    /\ UNCHANGED <<isScrapingInProgress, cacheFile, metadataFile, now, nops,
                   scrapeCount>>

\* scrapeLatestNews throws: catch, finally, and the caller's catch.
ScrapeThrows(p, e) ==
    /\ npc[p] = "scraping"
    /\ isScrapingInProgress' = FALSE
    /\ Caught(p, op[p], e, cacheFile)
    /\ UNCHANGED <<cacheFile, metadataFile, now, nops, scrapeCount>>

\* storeNews: await fs.writeJson(this.cacheFile, ...) ends.  A write that
\* fails leaves the file as it was or malformed, and storeNews throws
\* `Failed to store cache: ...`.
WriteCache(p, outcome) ==
    /\ npc[p] = "writeCache"
    /\ IF outcome = "ok"
       THEN /\ cacheFile' = ListingFile(op[p].newsData, now)
            /\ npc' = [npc EXCEPT ![p] = "writeMeta"]
            /\ UNCHANGED <<isScrapingInProgress, op, nres>>
       ELSE /\ cacheFile' = IF outcome = "torn" THEN Malformed(now)
                            ELSE cacheFile
            /\ isScrapingInProgress' = FALSE
            /\ Caught(p, op[p], "Failed to store cache: " \o WriteError,
                      cacheFile')
    /\ UNCHANGED <<metadataFile, now, nops, scrapeCount>>

\* storeNews: await fs.writeJson(this.metadataFile, ...) ends; on success
\* scrapeAndCache returns the scraped listing through its finally.
WriteMeta(p, outcome) ==
    /\ npc[p] = "writeMeta"
    /\ isScrapingInProgress' = FALSE
    /\ IF outcome = "ok"
       THEN /\ metadataFile' = MetadataOf(op[p].newsData)
            /\ IF op[p].kind = "cron"
               THEN Return(p, op[p], [status |-> "finished"])
               ELSE Return(p, op[p],
                           [status |-> "returned", id |-> op[p].newsData,
                            fromCache |-> FALSE, freshlyScraped |-> TRUE])
       ELSE /\ metadataFile' = IF outcome = "torn"
                               THEN [kind |-> "malformed"]
                               ELSE metadataFile
            /\ Caught(p, op[p], "Failed to store cache: " \o WriteError,
                      cacheFile)
    /\ UNCHANGED <<cacheFile, now, nops, scrapeCount>>

\* getNews: await fs.pathExists(this.cacheFile) ends.
GetNewsExists(p) ==
    /\ npc[p] = "exists"
    /\ LET o == Looked(op[p]) IN
       IF cacheFile.kind = "absent"
       THEN GetNewsNull(p, o)
       ELSE /\ npc' = [npc EXCEPT ![p] = IF o.force THEN "read" ELSE "stat"]
            /\ op' = [op EXCEPT ![p] = o]
            /\ UNCHANGED <<isScrapingInProgress, nres>>
    /\ UNCHANGED <<cacheFile, metadataFile, now, nops, scrapeCount>>

\* getNews: await this.isCacheExpired() ends.
GetNewsStat(p) ==
    /\ npc[p] = "stat"
    /\ LET o == Looked(op[p]) IN
       IF isCacheExpired(cacheFile)
       THEN GetNewsNull(p, o)
       ELSE /\ npc' = [npc EXCEPT ![p] = "read"]
            /\ op' = [op EXCEPT ![p] =
                        [o EXCEPT !.cacheAge = CacheAgeOf(cacheFile)]]
            /\ UNCHANGED <<isScrapingInProgress, nres>>
    /\ UNCHANGED <<cacheFile, metadataFile, now, nops, scrapeCount>>

\* getNews: await fs.readJson(this.cacheFile) ends; it throws on a missing
\* or malformed file, and the catch of getNews returns null.
GetNewsRead(p) ==
    /\ npc[p] = "read"
    /\ LET o == [Looked(op[p]) EXCEPT !.cacheAge = -1] IN
       IF cacheFile.kind # "json"
       THEN GetNewsNull(p, o)
       ELSE /\ npc' = [npc EXCEPT ![p] = "meta"]
            /\ op' = [op EXCEPT ![p] = [o EXCEPT !.cacheData = cacheFile.id]]
            /\ UNCHANGED <<isScrapingInProgress, nres>>
    /\ UNCHANGED <<cacheFile, metadataFile, now, nops, scrapeCount>>

\* metadata?.nextScheduledRefresh || null of getCacheMetadata(): that of the
\* metadata file, null when the file is missing or cannot be read.
NextRefreshOf(file) == IF file.kind = "json" THEN <<file.id>> ELSE <<>>

\* What getNews returns for the cache data it read.
CachedNews(cacheData, metadata) ==
    [status |-> "returned", id |-> cacheData, fromCache |-> TRUE,
     cacheInfo |-> [nextRefresh |-> NextRefreshOf(metadata),
                    articlesCount |-> cacheData]]

\* { ...staleCache, isStale: true, error: '...' }
StaleNews(staleCache) ==
    [isStale |-> TRUE,
     error |-> "Fresh data unavailable, showing cached data"] @@ staleCache

\* getNews: await this.getCacheMetadata() ends and getNews returns; in its
\* try getLatestNews returns that, in its catch it returns it as stale.
\* getCacheMetadata gives no nextScheduledRefresh whether the metadata file
\* is missing at its pathExists or at its readJson, so its two awaits are
\* one step here.
GetNewsMeta(p) ==
    /\ npc[p] = "meta"
    /\ LET cachedNews == CachedNews(op[p].cacheData, metadataFile) IN
       IF op[p].error = <<>>
       THEN Return(p, op[p], cachedNews)
       ELSE Return(p, op[p], StaleNews(cachedNews))
    /\ UNCHANGED <<isScrapingInProgress, cacheFile, metadataFile, now, nops,
                   scrapeCount>>

\* clearCache of the news API up to its first await.
ClearCache(p) ==
    /\ CanStart(p)
    /\ nops' = nops + 1
    /\ npc' = [npc EXCEPT ![p] = "clExists"]
    /\ op' = [op EXCEPT ![p] = NewOp("clear")]
    /\ nres' = [nres EXCEPT ![p] = NoRes]
    /\ UNCHANGED <<isScrapingInProgress, cacheFile, metadataFile, now,
                   scrapeCount>>

\* clearCache: await fs.pathExists(this.cacheFile) ends.
ClearExists(p) ==
    /\ npc[p] = "clExists"
    /\ npc' = [npc EXCEPT ![p] = IF cacheFile.kind = "absent"
                                 THEN "clMetaExists" ELSE "clRemove"]
    /\ UNCHANGED <<isScrapingInProgress, cacheFile, metadataFile, now, op,
                   nres, nops, scrapeCount>>

\* clearCache: await fs.remove(this.cacheFile) ends.
ClearRemove(p) ==
    /\ npc[p] = "clRemove"
    /\ cacheFile' = NoFile
    /\ npc' = [npc EXCEPT ![p] = "clMetaExists"]
    /\ UNCHANGED <<isScrapingInProgress, metadataFile, now, op, nres, nops,
                   scrapeCount>>

\* clearCache: await fs.pathExists(this.metadataFile) ends.
ClearMetaExists(p) ==
    /\ npc[p] = "clMetaExists"
    /\ IF metadataFile.kind = "absent"
       THEN Return(p, op[p], [status |-> "returned", cleared |-> TRUE])
       ELSE /\ npc' = [npc EXCEPT ![p] = "clMetaRemove"]
            /\ UNCHANGED <<op, nres>>
    /\ UNCHANGED <<isScrapingInProgress, cacheFile, metadataFile, now, nops,
                   scrapeCount>>

\* clearCache: await fs.remove(this.metadataFile) ends; clearCache returns.
ClearMetaRemove(p) ==
    /\ npc[p] = "clMetaRemove"
    /\ metadataFile' = NoFile
    /\ Return(p, op[p], [status |-> "returned", cleared |-> TRUE])
    /\ UNCHANGED <<isScrapingInProgress, cacheFile, now, nops, scrapeCount>>

\* Time passes.
Tick ==
    /\ now < MaxTime
    /\ now' = now + 1
    /\ UNCHANGED <<isScrapingInProgress, cacheFile, metadataFile, npc, op,
                   nres, nops, scrapeCount>>

\* What the news API route answers for an operation of the service that
\* ended with res: the listing, or, from the catch of GET and POST,
\* success: false with the message of the error and status 500.
NewsApiAnswer(res) ==
    IF res.status = "raised"
    THEN [status |-> 500, success |-> FALSE, error |-> res.message]
    ELSE [status |-> 200, success |-> TRUE, data |-> res]

(***************************************************************************)
(* The story cache (lib/storyCache.ts): one StoryCacheManager per process, *)
(* its in-memory cache and the file cached_stories.json behind it.  Every  *)
(* method is synchronous, so a call is one step.                           *)
(***************************************************************************)

MaxCalls == 3
MaxClock == 2

\* cleanExpiredEntries: expiryTime, CACHE_EXPIRY_DAYS days.  The story clock
\* counts in units of expiryTime.
expiryTime == 1

StoryURLs == {"u1", "u2"}
ChunkNumbers == {1, 2}

\* interface StoryChunk
StoryChunk(n, text, more) ==
    [chunk_number |-> n, chunk |-> text, has_more |-> more]

\* The titles and chunk lists that callers of saveStory pass: no chunk, two
\* chunks numbered 1 and 2, and two chunks that share the number 2.
StoryInputs ==
    {[title |-> "T1", chunks |-> <<>>],
     [title |-> "T1",
      chunks |-> <<StoryChunk(1, "a", TRUE), StoryChunk(2, "b", FALSE)>>],
     [title |-> "T2",
      chunks |-> <<StoryChunk(2, "a", TRUE), StoryChunk(2, "b", FALSE)>>]}

\* What writeFileSync does: it writes the file, or throws and leaves it.
StoryWriteOutcomes == {"ok", "fail"}

VARIABLES
    storyFile,  \* cached_stories.json
    cache,      \* StoryCacheManager.cache
    isLoaded,   \* StoryCacheManager.isLoaded
    today,      \* new Date(), in units of expiryTime
    scall,      \* the last call of a method of storyCache and what it returned
    saved,      \* per URL, what the last saveStory of this process stored
    ncalls      \* the number of calls so far

storyVars == <<storyFile, cache, isLoaded, today, scall, saved, ncalls>>

\* stories[url] of a URL that is no key of stories; the null that getStory
\* and getChunk return.
NoStory == [kind |-> "undefined"]
Null == [kind |-> "null"]
NoCall == [op |-> "none"]

\* { stories: {} }
EmptyCache == [kind |-> "StoryCache", stories |-> [url \in StoryURLs |-> NoStory]]

\* interface CachedStory
CachedStory(title, chunks, created_at, last_accessed) ==
    [title |-> title, story_chunks |-> chunks, created_at |-> created_at,
     last_accessed |-> last_accessed]

\* A cache file that JSON.stringify(this.cache) wrote.
StoriesFile(stories) == [kind |-> "json", stories |-> stories]

\* The manager object together with its file.
Manager == [file |-> storyFile, cache |-> cache, isLoaded |-> isLoaded]

\* this.cache has a stories object.  A file whose JSON parses to a value
\* without one (kind "noStories") leaves this.cache without it.
HasStories(c) == c.kind = "StoryCache"

\* loadCache: once per process; a file that is missing keeps the empty
\* cache, one that cannot be read or parsed is caught and gives the empty
\* cache again.
loadCacheRethrows(S) ==
    IF S.isLoaded THEN S
    ELSE [S EXCEPT !.isLoaded = TRUE,
                   !.cache = CASE S.file.kind = "absent" -> S.cache
                               [] S.file.kind = "json" ->
                                    [kind |-> "StoryCache",
                                     stories |-> S.file.stories]
                               [] OTHER -> [kind |-> "noStories"]]

loadCache(S) ==
    IF S.isLoaded THEN S
    ELSE [S EXCEPT !.isLoaded = TRUE,
                   !.cache = CASE S.file.kind = "absent" -> S.cache
                               [] S.file.kind = "json" ->
                                    [kind |-> "StoryCache",
                                     stories |-> S.file.stories]
                               [] S.file.kind = "noStories" ->
                                    [kind |-> "noStories"]
                               [] OTHER -> EmptyCache]

\* cleanExpiredEntries at time t.
cleanExpiredEntries(stories, t) ==
    [url \in StoryURLs |->
        IF stories[url] # NoStory /\ t - stories[url].created_at > expiryTime
        THEN NoStory
        ELSE stories[url]]

\* saveCache at time t: the expired entries are deleted, then the file is
\* written; a failing writeFileSync is caught.
saveCache(S, t, outcome) ==
    IF ~HasStories(S.cache) THEN S
    ELSE LET stories == cleanExpiredEntries(S.cache.stories, t)
         IN  [S EXCEPT !.cache = [kind |-> "StoryCache", stories |-> stories],
                       !.file = IF outcome = "ok" THEN StoriesFile(stories)
                                ELSE S.file]

\* getStory(url) at time t: the manager after the call, whether the call
\* threw (stories is undefined), and the value returned.
getStory(S, url, t, outcome) ==
    LET L == loadCache(S)
    IN  IF ~HasStories(L.cache)
        THEN [mgr |-> L, threw |-> TRUE, ret |-> Null]
        ELSE LET story == L.cache.stories[url]
             IN  IF story # NoStory
                 THEN LET touched == [story EXCEPT !.last_accessed = t]
                      IN  [mgr |-> saveCache(
                                     [L EXCEPT !.cache.stories[url] = touched],
                                     t, outcome),
                           threw |-> FALSE, ret |-> touched]
                 ELSE [mgr |-> L, threw |-> FALSE, ret |-> Null]

\* saveStory(url, title, chunks) at time t.
saveStoryKeepsTitle(S, url, title, chunks, t, outcome) ==
    LET L == loadCache(S)
    IN  IF ~HasStories(L.cache)
        THEN [mgr |-> L, threw |-> TRUE, ret |-> Null]
        ELSE LET old == L.cache.stories[url]
                 entry == CachedStory(IF old # NoStory THEN old.title
                                      ELSE title, chunks, t, t)
             IN  [mgr |-> saveCache([L EXCEPT !.cache.stories[url] = entry],
                                    t, outcome),
                  threw |-> FALSE, ret |-> Null]

saveStory(S, url, title, chunks, t, outcome) ==
    LET L == loadCache(S)
    IN  IF ~HasStories(L.cache)
        THEN [mgr |-> L, threw |-> TRUE, ret |-> Null]
        ELSE [mgr |-> saveCache(
                        [L EXCEPT !.cache.stories[url] =
                                      CachedStory(title, chunks, t, t)],
                        t, outcome),
              threw |-> FALSE, ret |-> Null]

\* chunks.find(c => c.chunk_number === chunkNumber) || null
FindChunk(chunks, chunkNumber) ==
    LET found == {i \in 1..Len(chunks) : chunks[i].chunk_number = chunkNumber}
    IN  IF found = {} THEN Null
        ELSE chunks[CHOOSE i \in found : \A j \in found : i <= j]

\* getChunk(url, chunkNumber) at time t.
getChunk(S, url, chunkNumber, t, outcome) ==
    LET got == getStory(S, url, t, outcome)
    IN  IF got.threw \/ got.ret = Null THEN got
        ELSE [got EXCEPT !.ret = FindChunk(got.ret.story_chunks, chunkNumber)]

\* hasCompleteStory(url) at time t.
hasCompleteStory(S, url, t, outcome) ==
    LET got == getStory(S, url, t, outcome)
    IN  IF got.threw THEN got
        ELSE [got EXCEPT !.ret = IF got.ret = Null THEN FALSE
                                 ELSE Len(got.ret.story_chunks) > 0]

\* The manager and its file become those of S.
Becomes(S) ==
    /\ storyFile' = S.file
    /\ cache' = S.cache
    /\ isLoaded' = S.isLoaded

\* What a call of a method leaves in scall.
CallOf(method, url, chunkNumber, r) ==
    [op |-> method, url |-> url, chunkNumber |-> chunkNumber, at |-> today,
     threw |-> r.threw, ret |-> r.ret]

\* A caller (the test route, test-cache.js) calls storyCache.saveStory.
SaveStory(url, title, chunks, outcome) ==
    LET r == saveStory(Manager, url, title, chunks, today, outcome)
    IN  /\ ncalls < MaxCalls
        /\ ncalls' = ncalls + 1
        /\ Becomes(r.mgr)
        /\ scall' = CallOf("saveStory", url, 0, r)
        /\ saved' = IF r.threw THEN saved
                    ELSE [saved EXCEPT ![url] =
                             [title |-> title, chunks |-> chunks,
                              at |-> today]]
        /\ UNCHANGED today

\* A caller calls storyCache.getStory.
GetStory(url, outcome) ==
    LET r == getStory(Manager, url, today, outcome)
    IN  /\ ncalls < MaxCalls
        /\ ncalls' = ncalls + 1
        /\ Becomes(r.mgr)
        /\ scall' = CallOf("getStory", url, 0, r)
        /\ UNCHANGED <<today, saved>>

\* A caller calls storyCache.getChunk.
GetChunk(url, chunkNumber, outcome) ==
    LET r == getChunk(Manager, url, chunkNumber, today, outcome)
    IN  /\ ncalls < MaxCalls
        /\ ncalls' = ncalls + 1
        /\ Becomes(r.mgr)
        /\ scall' = CallOf("getChunk", url, chunkNumber, r)
        /\ UNCHANGED <<today, saved>>

\* The process ends and a new one starts: a new StoryCacheManager on the
\* file the old one left.
Restart ==
    /\ isLoaded
    /\ cache' = EmptyCache
    /\ isLoaded' = FALSE
    /\ scall' = NoCall
    /\ saved' = [url \in StoryURLs |-> NoStory]
    /\ UNCHANGED <<storyFile, today, ncalls>>

\* Time passes.
StoryTick ==
    /\ today < MaxClock
    /\ today' = today + 1
    /\ UNCHANGED <<storyFile, cache, isLoaded, scall, saved, ncalls>>

(***************************************************************************)
(* The storyteller route (app/api/storyteller/route.ts): POST serves a     *)
(* chunk of the cached story of a URL or generates the whole story, one    *)
(* generation call per chunk, and saves it.                                *)
(***************************************************************************)

MaxPosts == 2
maxChunks == 5

\* The chunkNumber of a request: the default, and a later chunk.
RequestedChunks == {1, 3}

\* extractArticleTitle: a title found in the page, or its fallback.
PageTitles == {"News Article"}

\* What a completion holds as the text of chunk i, trimmed: a text, or
\* nothing (no choice, or a message with no content); the empty completion
\* is taken for the first chunk only.
ChunkContents(i) == IF i = 1 THEN {<<"s">>, <<>>} ELSE {<<"s">>}

\* The handlers of POST that run at a time.
Handlers == {"h1"}

VARIABLES
    spc,     \* per handler: idle, fetch, generate, done
    sreq,    \* per handler: the request and the locals of POST
    sresp,   \* per handler: the response
    nposts   \* the number of requests so far

postVars == <<spc, sreq, sresp, nposts>>

NoPost == [url |-> ""]
NoAnswer == [status |-> 0]

\* generateStoryChunk, after its await: the content of the completion,
\* trimmed, or '' when the completion has none.
generateStoryChunk(completion) ==
    [threw |-> FALSE, ret |-> IF completion = <<>> THEN "" ELSE completion[1]]

\* The catch of POST.
StoryError(details) ==
    [status |-> 500, error |-> "Failed to generate story chunk",
     details |-> details]

\* The response that carries a chunk.
ChunkAnswer(chunk, fromCache) ==
    [status |-> 200, chunk_number |-> chunk.chunk_number,
     chunk |-> chunk.chunk, has_more |-> chunk.has_more,
     fromCache |-> fromCache]

\* The handler ends with a response.
Respond(p, r, answer) ==
    /\ spc' = [spc EXCEPT ![p] = "done"]
    /\ sreq' = [sreq EXCEPT ![p] = r]
    /\ sresp' = [sresp EXCEPT ![p] = answer]

\* POST up to its first await: the URL is required; the story of the URL is
\* looked up, and the requested chunk of a cached story that has chunks is
\* answered; otherwise the article is fetched.
StoryPost(p, url, chunkNumber, outcome1, outcome2) ==
    LET r == [url |-> url, chunkNumber |-> chunkNumber,
              loaded |-> IF isLoaded \/ url = "" THEN "none"
                         ELSE storyFile.kind,
              title |-> "", allChunks |-> <<>>, stored |-> <<>>]
        cachedStory == getStory(Manager, url, today, outcome1)
        complete == hasCompleteStory(cachedStory.mgr, url, today, outcome2)
    IN  /\ spc[p] \in {"idle", "done"}
        /\ nposts < MaxPosts
        /\ nposts' = nposts + 1
        /\ IF url = ""
           THEN /\ Respond(p, r, [status |-> 400,
                                  error |-> "Article URL is required"])
                /\ UNCHANGED <<storyFile, cache, isLoaded>>
           ELSE IF cachedStory.threw
           THEN /\ Becomes(cachedStory.mgr)
                /\ Respond(p, r, StoryError("TypeError"))
           ELSE IF cachedStory.ret = Null
           THEN /\ Becomes(cachedStory.mgr)
                /\ spc' = [spc EXCEPT ![p] = "fetch"]
                /\ sreq' = [sreq EXCEPT ![p] = r]
                /\ sresp' = [sresp EXCEPT ![p] = NoAnswer]
           ELSE /\ Becomes(complete.mgr)
                /\ IF /\ complete.ret
                      /\ FindChunk(cachedStory.ret.story_chunks,
                                   chunkNumber) # Null
                   THEN Respond(p, r,
                                ChunkAnswer(
                                    FindChunk(cachedStory.ret.story_chunks,
                                              chunkNumber), TRUE))
                   ELSE /\ spc' = [spc EXCEPT ![p] = "fetch"]
                        /\ sreq' = [sreq EXCEPT ![p] = r]
                        /\ sresp' = [sresp EXCEPT ![p] = NoAnswer]
        /\ UNCHANGED <<today, scall, saved, ncalls>>

\* fetchArticleContent and extractArticleTitle return; the handler touches
\* nothing between the two awaits.
FetchReturns(p, title) ==
    /\ spc[p] = "fetch"
    /\ spc' = [spc EXCEPT ![p] = "generate"]
    /\ sreq' = [sreq EXCEPT ![p].title = title]
    /\ UNCHANGED <<sresp, nposts, storyVars>>

\* fetchArticleContent throws.
FetchThrows(p) ==
    /\ spc[p] = "fetch"
    /\ Respond(p, sreq[p], StoryError("Failed to fetch article"))
    /\ UNCHANGED <<nposts, storyVars>>

\* After the loop: the story is saved and the requested chunk answered.
SaveAndAnswer(p, r, allChunks, outcome) ==
    LET s == saveStory(Manager, r.url, r.title, allChunks, today, outcome)
        requestedChunk == FindChunk(allChunks, r.chunkNumber)
        ended == [r EXCEPT !.allChunks = allChunks, !.stored = <<allChunks>>]
    IN  /\ Becomes(s.mgr)
        /\ IF s.threw THEN Respond(p, r, StoryError("TypeError"))
           ELSE IF requestedChunk # Null
           THEN Respond(p, ended, ChunkAnswer(requestedChunk, FALSE))
           ELSE Respond(p, ended,
                        StoryError("Failed to generate requested chunk"))

\* ChunkFailed that saves the chunks as they are, the last one saying
\* has_more: true.
ChunkFailedKeepsHasMore(p, outcome) ==
    LET allChunks == sreq[p].allChunks
        n == Len(allChunks)
    IN  IF n = 0
        THEN /\ Respond(p, sreq[p],
                        StoryError("Failed to generate story chunk"))
             /\ UNCHANGED <<storyFile, cache, isLoaded>>
        ELSE SaveAndAnswer(p, sreq[p], allChunks, outcome)

\* The catch in the loop: with no chunk so far the request fails; otherwise
\* the last chunk gets has_more: false and what there is is saved.
ChunkFailed(p, outcome) ==
    LET allChunks == sreq[p].allChunks
        n == Len(allChunks)
    IN  IF n = 0
        THEN /\ Respond(p, sreq[p],
                        StoryError("Failed to generate story chunk"))
             /\ UNCHANGED <<storyFile, cache, isLoaded>>
        ELSE SaveAndAnswer(p, sreq[p],
                           [allChunks EXCEPT ![n].has_more = FALSE], outcome)

\* The generation call of chunk i returns: the chunk is appended, and after
\* the last one the story is saved.
GenerateReturns(p, completion, outcome) ==
    LET i == Len(sreq[p].allChunks) + 1
        chunkContent == generateStoryChunk(completion)
        allChunks == Append(sreq[p].allChunks,
                            StoryChunk(i, chunkContent.ret, i < maxChunks))
    IN  /\ spc[p] = "generate"
        /\ IF chunkContent.threw
           THEN ChunkFailed(p, outcome)
           ELSE IF i < maxChunks
           THEN /\ sreq' = [sreq EXCEPT ![p].allChunks = allChunks]
                /\ UNCHANGED <<spc, sresp, storyFile, cache, isLoaded>>
           ELSE SaveAndAnswer(p, sreq[p], allChunks, outcome)
        /\ UNCHANGED <<nposts, today, scall, saved, ncalls>>

\* The generation call of chunk i throws.
GenerateThrows(p, outcome) ==
    /\ spc[p] = "generate"
    /\ ChunkFailed(p, outcome)
    /\ UNCHANGED <<nposts, today, scall, saved, ncalls>>

(***************************************************************************)
(* Initial state and specifications                                        *)
(***************************************************************************)

VARIABLE runs   \* SpecCrew: the number of crews constructed so far

vars == <<crew, calls, runs, web, files, pc, req, article, resp, expect,
          lastKey, nreq, isScrapingInProgress, cacheFile, metadataFile, now,
          npc, op, nres, nops, scrapeCount, storyFile, cache, isLoaded, today,
          scall, saved, ncalls, spc, sreq, sresp, nposts>>

\* What the news service leaves alone.
otherVars == <<crewVars, runs, narratorVars, storyVars, postVars>>

\* The cache directory the service is constructed on: empty, or holding the
\* listing 0 that an earlier run of the program stored at time 0.
StoredAtStart == {<<NoFile, NoFile>>, <<ListingFile(0, 0), MetadataOf(0)>>}

\* The file cached_stories.json that the process starts on: none, one that
\* cannot be read, one that is no JSON, one whose JSON has no stories, and
\* one that an earlier process wrote at time 0.
StoryFilesAtStart ==
    {[kind |-> "absent"], [kind |-> "unreadable"], [kind |-> "malformed"],
     [kind |-> "noStories"],
     StoriesFile([url \in StoryURLs |->
                     IF url = "u1"
                     THEN CachedStory("T1", <<StoryChunk(1, "a", FALSE)>>, 0, 0)
                     ELSE NoStory])}

Init ==
    /\ crew = [p \in Procs |-> NoCrew]
    /\ calls = [p \in Procs |-> <<>>]
    /\ runs = 0
    /\ web \in {w \in [URLs -> UNION {ContentsOf(u) : u \in URLs}] :
                   \A u \in URLs : w[u] \in ContentsOf(u)}
    /\ files = <<>>
    /\ pc = [p \in Procs |-> "idle"]
    /\ req = [p \in Procs |-> NoReq]
    /\ article = [p \in Procs |-> NoArticle]
    /\ resp = [p \in Procs |-> NoResp]
    /\ expect = [p \in Procs |-> <<>>]
    /\ lastKey = [p \in Procs |-> <<>>]
    /\ nreq = 0
    /\ isScrapingInProgress = FALSE
    /\ \E stored \in StoredAtStart :
           cacheFile = stored[1] /\ metadataFile = stored[2]
    /\ now = 0
    /\ npc = [p \in Procs |-> "idle"]
    /\ op = [p \in Procs |-> NoOp]
    /\ nres = [p \in Procs |-> NoRes]
    /\ nops = 0
    /\ scrapeCount = 0
    /\ storyFile \in StoryFilesAtStart
    /\ cache = EmptyCache
    /\ isLoaded = FALSE
    /\ today = 0
    /\ scall = NoCall
    /\ saved = [url \in StoryURLs |-> NoStory]
    /\ ncalls = 0
    /\ spc = [p \in Handlers |-> "idle"]
    /\ sreq = [p \in Handlers |-> NoPost]
    /\ sresp = [p \in Handlers |-> NoAnswer]
    /\ nposts = 0

(***************************************************************************)
(* SpecCrew: callers that construct a pipeline with initializeCrew and run  *)
(* it, each caller one crew at a time, any two callers interleaved.        *)
(***************************************************************************)

\* A caller calls initializeCrew (of either library).
InitializeCrew(p, pipeline) ==
    /\ runs < MaxRuns
    /\ crew[p].state \in {"None", "Completed", "Failed"}
    /\ crew' = [crew EXCEPT ![p] = NewCrew(pipeline)]
    /\ calls' = [calls EXCEPT ![p] = <<>>]
    /\ runs' = runs + 1
    /\ UNCHANGED <<narratorVars, newsVars, storyVars, postVars>>

NextCrew ==
    \E p \in Procs :
        \/ \E pipeline \in Pipelines : InitializeCrew(p, pipeline)
        \/ Kickoff(p) /\ UNCHANGED <<runs, narratorVars, newsVars, storyVars, postVars>>
        \/ \E completion \in Completions :
               AgentReturn(p, completion) /\ UNCHANGED <<runs, narratorVars, newsVars, storyVars, postVars>>
        \/ \E e \in Errors : AgentThrow(p, e) /\ UNCHANGED <<runs, narratorVars, newsVars, storyVars, postVars>>

\* The pending completion call of p's crew ends, one way or the other.
AgentAnswers(p) ==
    /\ \/ \E completion \in Completions : AgentReturn(p, completion)
       \/ \E e \in Errors : AgentThrow(p, e)
    /\ UNCHANGED <<runs, narratorVars, newsVars, storyVars, postVars>>

\* No article of the web changes and the news cache directory is empty.
QuietWeb == web = [u \in URLs |-> "|"]
QuietNews == cacheFile = NoFile
QuietStory == storyFile = [kind |-> "absent"]

InitCrew == Init /\ QuietWeb /\ QuietNews /\ QuietStory
InitNarrator == Init /\ QuietNews /\ QuietStory
InitNews == Init /\ QuietWeb /\ QuietStory
InitStory == Init /\ QuietWeb /\ QuietNews

SpecCrew == InitCrew /\ [][NextCrew]_vars

\* SpecCrew where every completion call that is pending ends: the API
\* answers, or the client gives up and throws.
SpecCrewFair ==
    SpecCrew /\ \A p \in Procs : WF_vars(AgentAnswers(p))

(***************************************************************************)
(* SpecNarrator: requests to the narration route, two handlers at a time.  *)
(***************************************************************************)

NextNarrator ==
    \/ \E p \in Procs, news_link \in Links, readThrows \in BOOLEAN :
           PostStart(p, news_link, readThrows) /\ UNCHANGED <<runs, newsVars, storyVars, postVars>>
    \/ \E p \in Procs, outcome \in ScrapeOutcomes :
           PostScraped(p, outcome) /\ UNCHANGED <<runs, newsVars, storyVars, postVars>>
    \/ \E p \in Procs :
           /\ crew[p].state = "Running"
           /\ \E completion \in AnswersTo(PendingTask(p)) :
                  AgentReturn(p, completion)
           /\ UNCHANGED <<runs, narratorVars, newsVars, storyVars, postVars>>
    \/ \E p \in Procs, e \in NarratorErrors :
           AgentThrow(p, e) /\ UNCHANGED <<runs, narratorVars, newsVars, storyVars, postVars>>
    \/ \E p \in Procs, writeThrows \in BOOLEAN :
           PostNarrated(p, writeThrows) /\ UNCHANGED <<runs, newsVars, storyVars, postVars>>
    \/ \E p \in Procs : PostFailed(p) /\ UNCHANGED <<runs, newsVars, storyVars, postVars>>
    \/ \E p \in Procs, news_link \in Links, readThrows \in BOOLEAN :
           Get(p, news_link, readThrows) /\ UNCHANGED <<runs, newsVars, storyVars, postVars>>
    \/ \E u \in URLs : \E c \in ContentsOf(u) :
           WebChange(u, c) /\ UNCHANGED <<runs, newsVars, storyVars, postVars>>

SpecNarrator == InitNarrator /\ [][NextNarrator]_vars

(***************************************************************************)
(* SpecKey: callers of getCacheKey, each keeping its last call.            *)
(***************************************************************************)

KeyCall(p, newsLink, articleContent) ==
    /\ lastKey' = [lastKey EXCEPT ![p] =
                     <<newsLink, articleContent,
                       getCacheKey(newsLink, articleContent)>>]
    /\ UNCHANGED <<crew, calls, runs, web, files, pc, req, article, resp,
                   expect, nreq, newsVars, storyVars, postVars>>

NextKey ==
    \E p \in Procs, newsLink \in URLs, articleContent \in KeyContents :
        KeyCall(p, newsLink, articleContent)

SpecKey == InitCrew /\ [][NextKey]_vars

(***************************************************************************)
(* SpecNews: requests to the news API and scheduler callbacks on one       *)
(* NewsService, two operations at a time.                                  *)
(***************************************************************************)

NextNews ==
    \/ \E p \in Procs, kind \in {"get", "refresh"}, forceRefresh \in BOOLEAN :
           GetLatestNews(p, kind, forceRefresh) /\ UNCHANGED otherVars
    \/ \E p \in Procs : MorningRefresh(p) /\ UNCHANGED otherVars
    \/ \E p \in Procs : ScrapeReturns(p) /\ UNCHANGED otherVars
    \/ \E p \in Procs, e \in ScrapeErrors :
           ScrapeThrows(p, e) /\ UNCHANGED otherVars
    \/ \E p \in Procs, outcome \in WriteOutcomes :
           WriteCache(p, outcome) /\ UNCHANGED otherVars
    \/ \E p \in Procs, outcome \in WriteOutcomes :
           WriteMeta(p, outcome) /\ UNCHANGED otherVars
    \/ \E p \in Procs : GetNewsExists(p) /\ UNCHANGED otherVars
    \/ \E p \in Procs : GetNewsStat(p) /\ UNCHANGED otherVars
    \/ \E p \in Procs : GetNewsRead(p) /\ UNCHANGED otherVars
    \/ \E p \in Procs : GetNewsMeta(p) /\ UNCHANGED otherVars
    \/ \E p \in Procs : ClearCache(p) /\ UNCHANGED otherVars
    \/ \E p \in Procs : ClearExists(p) /\ UNCHANGED otherVars
    \/ \E p \in Procs : ClearRemove(p) /\ UNCHANGED otherVars
    \/ \E p \in Procs : ClearMetaExists(p) /\ UNCHANGED otherVars
    \/ \E p \in Procs : ClearMetaRemove(p) /\ UNCHANGED otherVars
    \/ Tick /\ UNCHANGED otherVars

SpecNews == InitNews /\ [][NextNews]_vars

(***************************************************************************)
(* SpecScraper: SpecNews with a source whose pages may all fail to be      *)
(* fetched, so that a scrape may return a listing of no article.           *)
(***************************************************************************)

NextScraper ==
    \/ NextNews
    \/ \E p \in Procs : ScrapeReturnsEmpty(p) /\ UNCHANGED otherVars

SpecScraper == InitNews /\ [][NextScraper]_vars

(***************************************************************************)
(* SpecStory: callers of the methods of storyCache, over restarts of the   *)
(* process.                                                                *)
(***************************************************************************)

storyOtherVars == <<crewVars, runs, narratorVars, newsVars, postVars>>

NextStory ==
    \/ \E url \in StoryURLs, input \in StoryInputs,
          outcome \in StoryWriteOutcomes :
           SaveStory(url, input.title, input.chunks, outcome)
           /\ UNCHANGED storyOtherVars
    \/ \E url \in StoryURLs, outcome \in StoryWriteOutcomes :
           GetStory(url, outcome) /\ UNCHANGED storyOtherVars
    \/ \E url \in StoryURLs, chunkNumber \in ChunkNumbers,
          outcome \in StoryWriteOutcomes :
           GetChunk(url, chunkNumber, outcome) /\ UNCHANGED storyOtherVars
    \/ Restart /\ UNCHANGED storyOtherVars
    \/ StoryTick /\ UNCHANGED storyOtherVars

SpecStory == InitStory /\ [][NextStory]_vars


(***************************************************************************)
(* SpecStoryteller: requests to the storyteller route, two handlers at a   *)
(* time.                                                                   *)
(***************************************************************************)

postOtherVars == <<crewVars, runs, narratorVars, newsVars>>

\* The writes of the story file succeed here; SpecStory has those that fail,
\* which POST cannot tell apart.
PostWriteOutcomes == {"ok"}

NextStoryteller ==
    \/ \E p \in Handlers, url \in StoryURLs \cup {""},
          chunkNumber \in RequestedChunks,
          outcome1 \in PostWriteOutcomes, outcome2 \in PostWriteOutcomes :
           StoryPost(p, url, chunkNumber, outcome1, outcome2)
           /\ UNCHANGED postOtherVars
    \/ \E p \in Handlers, title \in PageTitles :
           FetchReturns(p, title) /\ UNCHANGED postOtherVars
    \/ \E p \in Handlers : FetchThrows(p) /\ UNCHANGED postOtherVars
    \/ \E p \in Handlers, outcome \in PostWriteOutcomes,
          completion \in ChunkContents(1) :
           /\ spc[p] = "generate"
           /\ completion \in ChunkContents(Len(sreq[p].allChunks) + 1)
           /\ GenerateReturns(p, completion, outcome)
           /\ UNCHANGED postOtherVars
    \/ \E p \in Handlers, outcome \in PostWriteOutcomes :
           GenerateThrows(p, outcome) /\ UNCHANGED postOtherVars
    \/ StoryTick /\ UNCHANGED <<postOtherVars, postVars>>

SpecStoryteller == InitStory /\ [][NextStoryteller]_vars

(***************************************************************************)
(* SpecCaches: the three routes with a persisted cache side by side.  They *)
(* share no state, so a behaviour runs one of them, from its own initial   *)
(* states, while the other two stay as they started.                       *)
(***************************************************************************)

NarratorUntouched == nreq = 0 /\ QuietWeb
NewsUntouched == nops = 0 /\ now = 0 /\ QuietNews
StoryUntouched == nposts = 0 /\ today = 0 /\ QuietStory

InitCaches == InitNarrator \/ InitNews \/ InitStory

NextCaches ==
    \/ NewsUntouched /\ StoryUntouched /\ NextNarrator
    \/ NarratorUntouched /\ StoryUntouched /\ NextNews
    \/ NarratorUntouched /\ NewsUntouched /\ NextStoryteller

SpecCaches == InitCaches /\ [][NextCaches]_vars


(***************************************************************************)
(* Claims about the pipeline, checked under SpecCrew.                      *)
(***************************************************************************)

\* C1: a crew's completion calls are made in the declared order of its task
\* list, and a call is issued only when every earlier call of the run is
\* over: never two calls of one run in flight.
C1_SequentialInOrder ==
    \A p \in Procs :
        crew[p] # NoCrew =>
            /\ Len(calls[p]) <= Len(crew[p].tasks)
            /\ \A i \in 1..Len(calls[p]) :
                   calls[p][i].task = crew[p].tasks[i]
            /\ \A i \in 1..(Len(calls[p]) - 1) :
                   calls[p][i].status # "pending"

\* C1 witness: the three-task pipeline has reached its narration call after
\* the history and the summary call.
C1_Witness ==
    \E p \in Procs :
        /\ crew[p] # NoCrew
        /\ crew[p].tasks = AiAgentsPipeline.tasks
        /\ Len(calls[p]) = 3
        /\ calls[p][3].status = "pending"

\* C2: when the call of the k-th task threw, no call of a later task was
\* made and kickoff failed with that very error.
C2_AbortOnFailure ==
    \A p \in Procs :
        \A k \in 1..Len(calls[p]) :
            calls[p][k].status = "threw" =>
                /\ Len(calls[p]) = k
                /\ crew[p].state = "Failed"
                /\ crew[p].error = calls[p][k].error

\* C2 witness: the summary task of the three-task pipeline failed.
C2_Witness ==
    \E p \in Procs :
        /\ crew[p] # NoCrew
        /\ Len(crew[p].tasks) = 3
        /\ Len(calls[p]) = 2
        /\ calls[p][2].status = "threw"
        /\ crew[p].state = "Failed"

\* The text the completion call of `task` returned in p's run ("" before).
ReturnedText(p, task) ==
    LET done == {i \in 1..Len(calls[p]) :
                    calls[p][i].task = task /\ calls[p][i].status = "returned"}
    IN  IF done = {} THEN ""
        ELSE calls[p][CHOOSE i \in done : \A j \in done : j <= i].result

\* C3: the context an agent receives is, for the task's context list
\* [P1..Pn], the lines "Previous task result: <text Pi's agent returned>"
\* joined by newlines in list order; for the narration task of the
\* three-task pipeline: the history text, then the summary text.
C3_ContextThreading ==
    \A p \in Procs :
        \A n \in 1..Len(calls[p]) :
            LET t   == calls[p][n].task
                ctx == crew[p].context[t]
            IN  /\ calls[p][n].context =
                       JoinLines([i \in 1..Len(ctx) |->
                           "Previous task result: " \o ReturnedText(p, ctx[i])])
                /\ t = "roaldDahlTask" =>
                       calls[p][n].context =
                           "Previous task result: " \o calls[p][1].result
                           \o "\n" \o
                           "Previous task result: " \o calls[p][2].result

\* C3 witness: the narration agent was called after the history agent
\* returned "h" and the summary agent "s".
C3_Witness ==
    \E p \in Procs :
        /\ Len(calls[p]) = 3
        /\ calls[p][3].task = "roaldDahlTask"
        /\ calls[p][1].result = "h"
        /\ calls[p][2].result = "s"

\* C4: a completed kickoff made one call per task and returned the text of
\* the last task's call.
C4_ReturnsLastOutput ==
    \A p \in Procs :
        crew[p].state = "Completed" =>
            /\ Len(calls[p]) = Len(crew[p].tasks)
            /\ crew[p].result = calls[p][Len(calls[p])].result

\* C4 witness: a completed three-task run whose narration text differs from
\* the texts of both earlier tasks.
C4_Witness ==
    \E p \in Procs :
        /\ crew[p].state = "Completed"
        /\ Len(calls[p]) = 3
        /\ calls[p][3].result # calls[p][1].result
        /\ calls[p][3].result # calls[p][2].result

(***************************************************************************)
(* Claims about the narration route, checked under SpecNarrator, and about *)
(* getCacheKey, checked under SpecKey.                                     *)
(***************************************************************************)

\* C5: a narration request (POST or GET) for a URL whose text is unchanged
\* since the result of a successful POST for it was stored, and whose
\* cache read did not fail, is answered 200 with cached: true and the stored
\* narration text.
C5_StoredNarrationIsFound ==
    \A p \in Procs :
        (pc[p] = "done" /\ expect[p] # <<>> /\ ~req[p].readError) =>
            /\ resp[p].status = 200
            /\ "cached" \in DOMAIN resp[p].body
            /\ resp[p].body.roald_dahl_narration =
                   expect[p][1].roald_dahl_narration

\* C6: a POST whose lookup hit has returned at once, having called neither
\* scrapeArticle nor initializeCrew, with the found record and cached: true;
\* and a POST that scraped or built a crew had looked up first and missed.
C6_HitSkipsScrapeAndCrew ==
    \A p \in Procs :
        req[p].method = "POST" =>
            /\ req[p].found # <<>> =>
                   /\ pc[p] = "done"
                   /\ req[p].scrapes = 0
                   /\ req[p].crews = 0
                   /\ crew[p] = NoCrew
                   /\ calls[p] = <<>>
                   /\ resp[p].status = 200
                   /\ resp[p].body.cached = TRUE
                   /\ \A f \in DOMAIN req[p].found[1] :
                          resp[p].body[f] = req[p].found[1][f]
            /\ (pc[p] \in {"scraping", "crew"} \/ req[p].scrapes > 0
                    \/ req[p].crews > 0 \/ crew[p] # NoCrew) =>
                   req[p].found = <<>>

\* C6 witness: a POST was answered from the cache.
C6_Witness ==
    \E p \in Procs :
        /\ req[p].method = "POST"
        /\ req[p].found # <<>>
        /\ pc[p] = "done"
        /\ resp[p].body.cached = TRUE

\* The first 500 characters of an optional content ("" when absent).
KeyPreview(articleContent) ==
    IF articleContent = <<>> THEN ""
    ELSE Substring0(articleContent[1], PreviewLen)

\* C7: two getCacheKey calls with the same link and contents that agree on
\* their first 500 characters give the same key.
C7_KeyOfLinkAndPreview ==
    \A p, q \in Procs :
        (/\ lastKey[p] # <<>>
         /\ lastKey[q] # <<>>
         /\ lastKey[p][1] = lastKey[q][1]
         /\ KeyPreview(lastKey[p][2]) = KeyPreview(lastKey[q][2])) =>
            lastKey[p][3] = lastKey[q][3]

\* C7 witness: two calls with one link and different contents of more than
\* 500 characters that agree on the first 500.
C7_Witness ==
    \E p, q \in Procs :
        /\ lastKey[p] # <<>>
        /\ lastKey[q] # <<>>
        /\ lastKey[p][1] = lastKey[q][1]
        /\ lastKey[p][2] # lastKey[q][2]
        /\ lastKey[p][2] # <<>>
        /\ lastKey[q][2] # <<>>
        /\ Len(lastKey[p][2][1]) > PreviewLen
        /\ KeyPreview(lastKey[p][2]) = KeyPreview(lastKey[q][2])
        /\ lastKey[p][3] = lastKey[q][3]

(***************************************************************************)
(* Claims about the news service, checked under SpecNews.                  *)
(***************************************************************************)

\* p is in the body of scrapeAndCache, between setting and clearing the flag.
InScrapeAndCache(p) == npc[p] \in {"scraping", "writeCache", "writeMeta"}

\* The operation of p is a getLatestNews, called directly or by refreshNews.
IsGetLatestNews(p) == op[p].kind \in {"get", "refresh"}

\* C8: at any time at most one operation is in the body of scrapeAndCache,
\* whichever requests and scheduler callbacks are interleaved.
C8_OneScrapeInFlight ==
    Cardinality({p \in Procs : InScrapeAndCache(p)}) <= 1

\* C8 witness: one operation is in the body of scrapeAndCache and another has
\* called scrapeAndCache meanwhile and was rejected.
C8_Witness ==
    \E p, q \in Procs :
        /\ p # q
        /\ InScrapeAndCache(p)
        /\ op[q].kind \in {"get", "refresh", "cron"}
        /\ op[q].sawScrape
        /\ op[q].error = <<"Scraping already in progress">>

\* C9: a getLatestNews that arrived while a scrape was in flight ends by
\* returning a freshly scraped listing: it does not fail and its answer is
\* neither stale nor from the cache.
C9_ArrivalDuringScrapeGetsFresh ==
    \A p \in Procs :
        (npc[p] = "done" /\ IsGetLatestNews(p) /\ op[p].sawScrape) =>
            /\ nres[p].status = "returned"
            /\ "isStale" \notin DOMAIN nres[p]
            /\ nres[p].fromCache = FALSE

\* C10: a getLatestNews whose refresh attempt failed while the cache file
\* held a listing, expired or not, that was still there when the fallback
\* looked for it, returns that listing with isStale: true and the error
\* message, and does not raise.
C10_StaleFallback ==
    \A p \in Procs :
        (/\ npc[p] = "done"
         /\ IsGetLatestNews(p)
         /\ op[p].error # <<>>
         /\ op[p].fbFile.kind = "json") =>
            /\ nres[p].status = "returned"
            /\ nres[p].id = op[p].fbFile.id
            /\ nres[p].fromCache = TRUE
            /\ "isStale" \in DOMAIN nres[p]
            /\ nres[p].isStale = TRUE
            /\ nres[p].error = "Fresh data unavailable, showing cached data"

\* C10 witness: a refresh failed while the stored listing was expired, and
\* getLatestNews returned that listing as stale.
C10_Witness ==
    \E p \in Procs :
        /\ npc[p] = "done"
        /\ IsGetLatestNews(p)
        /\ op[p].error # <<>>
        /\ op[p].fbFile.kind = "json"
        /\ op[p].fbExpired
        /\ nres[p].status = "returned"
        /\ nres[p].id = op[p].fbFile.id

\* C11: a getLatestNews whose refresh attempt failed while the cache file
\* held no listing (it was missing or malformed), and still held none when
\* the fallback looked, fails with `Failed to get news: <cause>`, which the
\* news API answers with success: false and status 500; it returns no
\* listing.
C11_NoFallbackRaises ==
    \A p \in Procs :
        (/\ npc[p] = "done"
         /\ IsGetLatestNews(p)
         /\ op[p].error # <<>>
         /\ op[p].fbFile.kind \in {"absent", "malformed"}) =>
            /\ nres[p] = [status |-> "raised",
                          message |-> "Failed to get news: " \o op[p].error[1]]
            /\ NewsApiAnswer(nres[p]).status = 500
            /\ NewsApiAnswer(nres[p]).success = FALSE
            /\ "data" \notin DOMAIN NewsApiAnswer(nres[p])

\* C11 witness: a refresh failed with no file in the cache directory and the
\* request was answered 500.
C11_Witness ==
    \E p \in Procs :
        /\ npc[p] = "done"
        /\ IsGetLatestNews(p)
        /\ op[p].error # <<>>
        /\ op[p].fbFile.kind = "absent"
        /\ nres[p].status = "raised"
        /\ NewsApiAnswer(nres[p]).status = 500

\* What C12 asks of a step that p takes in getNews.
C12_GetNewsStep(p) ==
    /\ (npc[p] = "exists" /\ cacheFile.kind = "json") =>
           npc'[p] = IF op[p].force THEN "read" ELSE "stat"
    /\ (npc[p] = "stat" /\ cacheFile.kind = "json") =>
           IF now - cacheFile.mtime <= maxAge
           THEN npc'[p] = "read"
           ELSE /\ npc'[p] \in {"scraping", "exists"}
                /\ npc'[p] = "exists" => op'[p].error # <<>>
    /\ (npc[p] = "read" /\ cacheFile.kind = "json") =>
           /\ npc'[p] = "meta"
           /\ op'[p].cacheData = cacheFile.id
    /\ npc[p] = "meta" =>
           /\ nres'[p].status = "returned"
           /\ nres'[p].id = op[p].cacheData
           /\ nres'[p].fromCache = TRUE

\* C12: with a listing written at mtime in the cache file, getNews(false)
\* goes on to read and return it when now - mtime <= maxAge and reports a
\* miss (getLatestNews turns to scrapeAndCache) when now - mtime > maxAge;
\* getNews(true) reads and returns it without looking at its age.
C12_StalenessBoundary ==
    [][\A p \in Procs : npc'[p] # npc[p] => C12_GetNewsStep(p)]_vars

\* C12 witness: getNews(false) found the listing at age exactly maxAge and
\* went on to read it.
C12_Witness ==
    \E p \in Procs :
        /\ npc[p] = "read"
        /\ ~op[p].force
        /\ op[p].cacheAge = maxAge

\* C13: a POST whose scrapeArticle reported success: false, or returned
\* empty content, is answered 400 with success: false; it has built and run
\* no crew and has not called saveToCacheWithKey.
C13_FailedScrapeStops ==
    \A p \in Procs :
        (/\ req[p].method = "POST"
         /\ req[p].scrapes = 1
         /\ pc[p] # "scraping"
         /\ (~article[p].success \/ article[p].content = "")) =>
            /\ pc[p] = "done"
            /\ resp[p].status = 400
            /\ resp[p].body.success = FALSE
            /\ req[p].crews = 0
            /\ crew[p] = NoCrew
            /\ calls[p] = <<>>
            /\ req[p].kickoff = <<>>
            /\ req[p].saves = 0

\* C13 witness: scrapeArticle reported success: false and the POST was
\* answered 400.
C13_Witness ==
    \E p \in Procs :
        /\ req[p].method = "POST"
        /\ req[p].scrapes = 1
        /\ pc[p] = "done"
        /\ "content" \in DOMAIN article[p]
        /\ ~article[p].success
        /\ resp[p].status = 400

\* p is done with a POST whose crew.kickoff() threw.
KickoffThrew(p) ==
    /\ pc[p] = "done"
    /\ req[p].method = "POST"
    /\ req[p].kickoff # <<>>
    /\ req[p].kickoff[1] = "threw"

\* C14: a POST whose crew.kickoff() threw is answered with success: false and
\* the message of the error and nothing else: no narration, neither the
\* output of an earlier task nor any other; and it has not called
\* saveToCacheWithKey.
C14_FailedKickoffNoNarration ==
    \A p \in Procs :
        KickoffThrew(p) =>
            /\ resp[p].status = 500
            /\ resp[p].body =
                   [success |-> FALSE, details |-> req[p].kickoff[2]]
            /\ req[p].kickoff[2] \in NarratorErrors
            /\ req[p].saves = 0

\* C14 witness: kickoff threw after an earlier task had returned its output.
C14_Witness ==
    \E p \in Procs :
        /\ KickoffThrew(p)
        /\ req[p].kickoff[3] # ""
        /\ resp[p].status = 500

\* C15: a POST whose write of the cache entry threw is answered 200 with
\* success: true and the narration that crew.kickoff() returned.
C15_SaveFailureSwallowed ==
    \A p \in Procs :
        (pc[p] = "done" /\ req[p].method = "POST" /\ req[p].saveThrew) =>
            /\ resp[p].status = 200
            /\ resp[p].body.success = TRUE
            /\ resp[p].body.news_link = req[p].news_link
            /\ req[p].kickoff[1] = "returned"
            /\ resp[p].body.roald_dahl_narration = req[p].kickoff[2]
            /\ "cached" \notin DOMAIN resp[p].body

\* C15 witness: the write threw and the POST was answered 200.
C15_Witness ==
    \E p \in Procs :
        /\ pc[p] = "done"
        /\ req[p].method = "POST"
        /\ req[p].saveThrew
        /\ resp[p].status = 200
        /\ resp[p].body.roald_dahl_narration # ""

\* C16: a getLatestNews whose scrape succeeded and whose storeNews then
\* failed (`Failed to store cache: ...`) is still answered with the freshly
\* scraped listing: it does not raise and is not served the stored listing
\* as stale data.
C16_StoreFailureStillReturnsFresh ==
    \A p \in Procs :
        (/\ npc[p] = "done"
         /\ IsGetLatestNews(p)
         /\ op[p].error = <<"Failed to store cache: " \o WriteError>>) =>
            /\ nres[p].status = "returned"
            /\ nres[p].fromCache = FALSE
            /\ "isStale" \notin DOMAIN nres[p]

\* The story that the last saveStory(url, ...) of this process stored is
\* what the call in scall had to find.
AnswersSaved(call, story) ==
    /\ ~call.threw
    /\ call.op = "getStory" =>
          /\ call.ret # Null
          /\ call.ret.title = story.title
          /\ call.ret.story_chunks = story.chunks
    /\ call.op = "getChunk" =>
          IF \E i \in 1..Len(story.chunks) :
                 story.chunks[i].chunk_number = call.chunkNumber
          THEN /\ \E i \in 1..Len(story.chunks) : call.ret = story.chunks[i]
               /\ call.ret.chunk_number = call.chunkNumber
          ELSE call.ret = Null

\* C18 (as stated): after saveStory(url, title, chunks), every later
\* getStory(url) returns a story with that title and those chunks and every
\* later getChunk(url, n) the chunk numbered n or null, whatever was saved
\* for other URLs in between.
C18_SavedStoryAlwaysReturned ==
    (/\ scall.op \in {"getStory", "getChunk"}
     /\ saved[scall.url] # NoStory) =>
        AnswersSaved(scall, saved[scall.url])

\* C18 (amended): the same, for calls made while the story is no older than
\* CACHE_EXPIRY_DAYS days.
C18_SavedStoryReturnedUntilExpiry ==
    (/\ scall.op \in {"getStory", "getChunk"}
     /\ saved[scall.url] # NoStory
     /\ scall.at - saved[scall.url].at <= expiryTime) =>
        AnswersSaved(scall, saved[scall.url])

\* C18 witness: a story was saved for u1, later one for u2, and then
\* getChunk("u1", 2) returned the chunk numbered 2 of the story of u1.
C18_Witness ==
    /\ scall.op = "getChunk"
    /\ scall.url = "u1"
    /\ saved["u1"] # NoStory
    /\ saved["u2"] # NoStory
    /\ saved["u2"].at > saved["u1"].at
    /\ scall.ret # Null
    /\ scall.ret.chunk_number = 2
    /\ scall.ret = saved["u1"].chunks[2]

(***************************************************************************)
(* Claims about all persisted caches, checked under SpecCaches.            *)
(***************************************************************************)

\* The kinds of story file on which readFileSync or JSON.parse throws.
ReadFailures == {"unreadable", "malformed"}

\* A narration request whose read of the cache file threw found nothing: a
\* POST went on to scrape the article, a GET answered 404.
C17_NarrationMiss ==
    \A p \in Procs :
        (req[p].method # "none" /\ req[p].readError) =>
            /\ req[p].found = <<>>
            /\ req[p].method = "POST" => req[p].scrapes = 1
            /\ req[p].method = "GET" => resp[p].status = 404

\* A step of getNews in which readJson threw on the cache file ends getNews
\* with null: a call that was looking for a fresh enough listing goes on to
\* scrapeAndCache, which starts a scrape or rejects the call because one is
\* running.
C17_ListingMiss(p) ==
    (/\ npc[p] = "read"
     /\ npc'[p] # "read"
     /\ cacheFile.kind # "json"
     /\ op[p].error = <<>>) =>
        \/ npc'[p] = "scraping" /\ isScrapingInProgress'
        \/ /\ isScrapingInProgress
           /\ op'[p].error = <<"Scraping already in progress">>

\* A storyteller request on which loadCache failed to read or parse the
\* story file is not failed by it and not answered from the cache.
C17_StoryMiss ==
    \A p \in Handlers :
        (sreq[p].url # "" /\ sreq[p].loaded \in ReadFailures) =>
            /\ spc[p] \in {"fetch", "generate", "done"}
            /\ sresp[p] # StoryError("TypeError")
            /\ "fromCache" \in DOMAIN sresp[p] => ~sresp[p].fromCache

C17_NarrationCase ==
    \E p \in Procs :
        /\ req[p].method = "POST"
        /\ req[p].readError
        /\ pc[p] = "done"
        /\ resp[p].status = 200

\* C17, listing: getNews is about to read a cache file that is no JSON.
C17_ListingCase ==
    \E p \in Procs :
        /\ npc[p] = "read"
        /\ cacheFile.kind = "malformed"
        /\ op[p].error = <<>>

(***************************************************************************)
(* Further claims about the pipeline, checked under SpecCrew.              *)
(***************************************************************************)

\* error is a pipeline-task error: not the error of the completion API
\* itself but one that names the failing task and carries that error.
IsPipelineTaskError(error, task, cause) ==
    /\ error \notin Errors
    /\ error # ""
    /\ error.task = task
    /\ error.cause = cause

\* C19: the failure that a failed kickoff surfaced is a pipeline-task error
\* that identifies the task whose call threw and carries the error thrown.
C19_FailureIdentifiesTask ==
    \A p \in Procs :
        crew[p].state = "Failed" =>
            LET n == Len(calls[p])
            IN  IsPipelineTaskError(crew[p].error, calls[p][n].task,
                                    calls[p][n].error)

\* C20: no generation call returned normally on a completion without
\* content, and every call on which the API threw failed with its error.
C20_NoContentFails ==
    \A p \in Procs : \A n \in 1..Len(calls[p]) :
        /\ calls[p][n].status = "returned" => calls[p][n].result # ""
        /\ calls[p][n].status = "threw" => calls[p][n].error \in Errors

(***************************************************************************)
(* Further claims about the news service, checked under SpecNews.          *)
(***************************************************************************)

\* C21: storeNews replaces listing and metadata as one: while no storeNews
\* is between its two writes the two files belong to the same scrape, and
\* no getNews returned a listing with the metadata of another scrape.
C21_StoreIsAtomic ==
    /\ (/\ \A p \in Procs : npc[p] # "writeMeta"
        /\ cacheFile.kind = "json"
        /\ metadataFile.kind = "json") =>
           cacheFile.id = metadataFile.id
    /\ \A p \in Procs :
           (/\ npc[p] = "done"
            /\ "cacheInfo" \in DOMAIN nres[p]
            /\ nres[p].cacheInfo.nextRefresh # <<>>) =>
               nres[p].cacheInfo.nextRefresh = <<nres[p].id>>

\* C22: a getLatestNews whose scrape could fetch none of the source pages,
\* while the cache file holds no listing with articles to fall back on, ends
\* in an error and never in a successful answer with an empty article list.
C22_FailedRefreshIsError ==
    [][\A p \in Procs :
          (/\ npc[p] = "writeMeta"
           /\ IsGetLatestNews(p)
           /\ totalArticles(op[p].newsData) = 0
           /\ cacheFile.kind = "json" => totalArticles(cacheFile.id) = 0
           /\ npc'[p] = "done") =>
              nres'[p].status = "raised"]_vars

\* C23: a refresh whose scrape could fetch none of the source pages leaves
\* a listing stored before it, its articles and its last-write time, as it
\* was.
C23_FailedFetchKeepsListing ==
    [][\A p \in Procs :
          (/\ npc[p] = "writeCache"
           /\ totalArticles(op[p].newsData) = 0
           /\ cacheFile.kind = "json"
           /\ npc'[p] # "writeCache") =>
              cacheFile' = cacheFile]_vars

(***************************************************************************)
(* Further claims about the narration route, checked under SpecNarrator.   *)
(***************************************************************************)

\* C24: a narration record, once written under a key, is never rewritten:
\* no step changes the record that the cache directory holds at a key.
C24_EntriesImmutable ==
    [][\A k \in DOMAIN files : files'[k] = files[k]]_vars

(***************************************************************************)
(* Further claims about the pipeline, checked under SpecCrew.              *)
(***************************************************************************)

\* C25: the task list of each pipeline of initializeCrew is a topological
\* order of its context lists, and when a task's call is issued every task
\* of its context list has returned in this run and its output is what it
\* returned.
C25_PrerequisitesDone ==
    /\ \A pipeline \in Pipelines :
           \A i \in 1..Len(pipeline.tasks) :
               LET ctx == pipeline.context[pipeline.tasks[i]] IN
               \A j \in 1..Len(ctx) :
                   \E k \in 1..(i - 1) : pipeline.tasks[k] = ctx[j]
    /\ \A p \in Procs :
           \A n \in 1..Len(calls[p]) :
               LET ctx == crew[p].context[calls[p][n].task] IN
               \A j \in 1..Len(ctx) :
                   \E k \in 1..(n - 1) :
                       /\ calls[p][k].task = ctx[j]
                       /\ calls[p][k].status = "returned"
                       /\ crew[p].output[ctx[j]] = calls[p][k].result

\* C25 witness: the narration task of the two-task pipeline has started
\* after its history task returned "h", and the narration task of the
\* three-task pipeline has returned.
C25_Witness ==
    \E p, q \in Procs :
        /\ crew[p] # NoCrew
        /\ crew[p].tasks = CrewAiPipeline.tasks
        /\ Len(calls[p]) = 2
        /\ calls[p][2].status = "pending"
        /\ crew[p].output["historyTask"] = "h"
        /\ crew[q] # NoCrew
        /\ crew[q].tasks = AiAgentsPipeline.tasks
        /\ crew[q].state = "Completed"

(***************************************************************************)
(* Further claims about the narration route, checked under SpecNarrator.   *)
(* A step in which the GET of p arrives is its whole handler.              *)
(***************************************************************************)

GetAnswered(p) == pc[p] = "done" /\ req[p].method = "GET"

GetArrives(p) ==
    /\ nreq' = nreq + 1
    /\ req'[p].method = "GET"
    /\ \A q \in Procs \ {p} : req'[q] = req[q] /\ resp'[q] = resp[q]

\* What every answered GET has done: no scrape, no crew, no save.
GetOnlyLooksUp(p) ==
    /\ req[p].scrapes = 0
    /\ req[p].crews = 0
    /\ req[p].saves = 0
    /\ crew[p] = NoCrew

\* C26 as stated: every GET of the narration route only looks the cache
\* up, and answers with the cached record when the lookup found one and
\* with 404 otherwise.
C26_GetOnlyReads ==
    \A p \in Procs :
        GetAnswered(p) =>
            /\ GetOnlyLooksUp(p)
            /\ IF req[p].found # <<>>
               THEN resp[p] = [status |-> 200,
                               body |-> [cached |-> TRUE] @@ req[p].found[1]]
               ELSE resp[p].status = 404

\* C26 amended: every GET only looks the cache up and leaves the cache
\* directory as it is; a GET that names no news_link is answered 400, and
\* one that names a link with the cached record when the lookup found one
\* and with 404 otherwise.
C26_GetOnlyReadsNamedLink ==
    /\ [](\A p \in Procs :
            GetAnswered(p) =>
                /\ GetOnlyLooksUp(p)
                /\ IF req[p].news_link = ""
                   THEN resp[p].status = 400
                   ELSE IF req[p].found # <<>>
                   THEN resp[p] =
                            [status |-> 200,
                             body |-> [cached |-> TRUE] @@ req[p].found[1]]
                   ELSE resp[p].status = 404)
    /\ [][\A p \in Procs : GetArrives(p) => files' = files]_vars

\* C26 witness: a GET found the record that an earlier POST stored, and
\* was answered with it.
C26_Witness ==
    \E p \in Procs :
        /\ GetAnswered(p)
        /\ req[p].found # <<>>
        /\ resp[p].status = 200
        /\ resp[p].body.cached
        /\ resp[p].body.roald_dahl_narration # ""

(***************************************************************************)
(* Further claims about Agent.execute and Task, checked under SpecCrew.    *)
(***************************************************************************)

\* The executes that the kickoff of crew c has started.
Executes(c) ==
    IF c.state = "Created" THEN 0
    ELSE IF c.state = "Completed" THEN c.idx - 1
    ELSE c.idx

\* C27: every execute makes one completion call, so a run has made as many
\* calls as it started executes; a call that returned gave its task the
\* text of the completion, the empty string for a completion without
\* content; a call that threw was not made again and its error is the one
\* that the run failed with.
C27_OneCallPerExecute ==
    \A p \in Procs :
        crew[p] # NoCrew =>
            /\ Len(calls[p]) = Executes(crew[p])
            /\ \A n \in 1..Len(calls[p]) :
                   /\ calls[p][n].status = "returned" =>
                          /\ calls[p][n].result \in Texts \cup {""}
                          /\ crew[p].output[calls[p][n].task] =
                                 calls[p][n].result
                   /\ calls[p][n].status = "threw" =>
                          /\ n = Len(calls[p])
                          /\ calls[p][n].error \in Errors
                          /\ crew[p].error = calls[p][n].error
                          /\ crew[p].output[calls[p][n].task] = ""

\* C27 witness: in one run the first call returned a completion without
\* content and the second threw E2.
C27_Witness ==
    \E p \in Procs :
        /\ Len(calls[p]) = 2
        /\ calls[p][1].status = "returned"
        /\ calls[p][1].result = ""
        /\ calls[p][2].status = "threw"
        /\ calls[p][2].error = "E2"

\* Whether the call of task t has returned in the run of p.
HasReturned(p, t) ==
    \E n \in 1..Len(calls[p]) :
        calls[p][n].task = t /\ calls[p][n].status = "returned"

\* C28: in a run, the output of a task whose call has not returned is its
\* initial empty string, also when the call threw; and a step of the run
\* changes the output of a task only when the pending call of that task
\* returns, to the result of the call, the output having been empty.
C28_OutputSetOnce ==
    /\ [](\A p \in Procs :
            crew[p] # NoCrew =>
                \A t \in DOMAIN crew[p].output :
                    ~HasReturned(p, t) => crew[p].output[t] = "")
    /\ [][\A p \in Procs :
            (/\ crew[p] # NoCrew
             /\ crew'[p] # NoCrew
             /\ crew'[p].state # "Created") =>
                \A t \in DOMAIN crew[p].output :
                    crew'[p].output[t] # crew[p].output[t] =>
                        LET n == Len(calls[p]) IN
                        /\ n >= 1
                        /\ calls[p][n].task = t
                        /\ calls[p][n].status = "pending"
                        /\ calls'[p][n].status = "returned"
                        /\ crew'[p].output[t] = calls'[p][n].result
                        /\ crew[p].output[t] = ""]_vars

\* C28 witness: the history task holds the "h" its call returned while the
\* summary task, whose call threw, and the narration task, which never
\* ran, hold the empty string.
C28_Witness ==
    \E p \in Procs :
        /\ crew[p] # NoCrew
        /\ crew[p].state = "Failed"
        /\ Len(crew[p].tasks) = 3
        /\ Len(calls[p]) = 2
        /\ crew[p].output["historyTask"] = "h"
        /\ crew[p].output["summaryTask"] = ""
        /\ crew[p].output["roaldDahlTask"] = ""

(***************************************************************************)
(* A further claim about the news service, checked under SpecNews.         *)
(***************************************************************************)

\* C29: the in-progress flag is set exactly while a scrapeAndCache is in
\* its body: every way a run ends (the listing stored, the scrape or a
\* write of the store failed) has cleared it, and a call rejected
\* meanwhile has left the flag of the running scrape set.
C29_FlagReleased ==
    isScrapingInProgress <=> \E p \in Procs : InScrapeAndCache(p)

\* C29 witness: after the scrape of one operation failed, a refresh has
\* entered scrapeAndCache and is scraping.
C29_Witness ==
    \E p, q \in Procs :
        /\ p # q
        /\ op[p].kind \in {"get", "refresh", "cron"}
        /\ op[p].error \in {<<e>> : e \in ScrapeErrors}
        /\ op[q].kind = "refresh"
        /\ npc[q] = "scraping"
        /\ isScrapingInProgress

\* C29 witness of a store failure: the flag is clear after the write of
\* the cache file of a run failed.
C29_StoreFailureCase ==
    \E p \in Procs :
        /\ op[p].kind \in {"get", "refresh", "cron"}
        /\ op[p].error = <<"Failed to store cache: " \o WriteError>>
        /\ ~isScrapingInProgress

(***************************************************************************)
(* A further claim about concurrent runs, checked under SpecCrew.          *)
(***************************************************************************)

\* C30: runs do not interact.  The context of every call of a run is made
\* of the outputs of the tasks of that run, and a completed run returned
\* the output of its own last task; and a step of one run leaves the crew
\* and the calls of the other caller as they are.
C30_RunsIndependent ==
    /\ [](\A p \in Procs :
            crew[p] # NoCrew =>
                /\ \A n \in 1..Len(calls[p]) :
                       LET ctx == crew[p].context[calls[p][n].task] IN
                       calls[p][n].context =
                           JoinLines([i \in 1..Len(ctx) |->
                               "Previous task result: "
                                   \o crew[p].output[ctx[i]]])
                /\ crew[p].state = "Completed" =>
                       crew[p].result =
                           crew[p].output[crew[p].tasks[Len(crew[p].tasks)]])
    /\ [][\A p, q \in Procs :
            (p # q /\ <<crew'[p], calls'[p]>> # <<crew[p], calls[p]>>) =>
                <<crew'[q], calls'[q]>> = <<crew[q], calls[q]>>]_vars

\* C30 witness: two runs are under way at once, the history task of one
\* returned "h" and that of the other "s", and both have issued the call
\* of a task that takes the history task as context.
C30_Witness ==
    \E p, q \in Procs :
        /\ p # q
        /\ crew[p] # NoCrew /\ crew[q] # NoCrew
        /\ crew[p].state = "Running" /\ crew[q].state = "Running"
        /\ crew[p].output["historyTask"] = "h"
        /\ crew[q].output["historyTask"] = "s"
        /\ Len(calls[p]) = Len(crew[p].tasks)
        /\ Len(calls[q]) = Len(crew[q].tasks)

(***************************************************************************)
(* Further claims about the narration route, checked under SpecNarrator.   *)
(***************************************************************************)

\* The POST of p has narrated and answered.
PostNarratedDone(p) ==
    /\ pc[p] = "done"
    /\ req[p].method = "POST"
    /\ req[p].kickoff # <<>>
    /\ req[p].kickoff[1] = "returned"

\* C31: every POST whose crew returned is answered 200 with the narration
\* of its own crew; and the step in which a POST saves leaves under its
\* key the whole result that this POST returns, and every other record of
\* the directory as it was.
C31_LastWriterWins ==
    /\ [](\A p \in Procs :
            PostNarratedDone(p) =>
                /\ resp[p].status = 200
                /\ resp[p].body.success
                /\ resp[p].body.news_link = req[p].news_link
                /\ resp[p].body.roald_dahl_narration = req[p].kickoff[2])
    /\ [][\A p \in Procs :
            (/\ pc[p] = "crew"
             /\ pc'[p] = "done"
             /\ req'[p].saves = 1
             /\ ~req'[p].saveThrew) =>
                LET k == CacheKey(req[p].news_link, <<article[p].content>>) IN
                /\ DOMAIN files' = DOMAIN files \cup {k}
                /\ files'[k] = resp'[p].body
                /\ \A j \in DOMAIN files \ {k} : files'[j] = files[j]]_vars

\* C31 witness: two POSTs for the same link and text have both answered
\* 200 with different narrations, and the record at their key is the
\* result of one of them.
C31_Witness ==
    \E p, q \in Procs :
        /\ p # q
        /\ PostNarratedDone(p) /\ PostNarratedDone(q)
        /\ req[p].news_link = req[q].news_link
        /\ resp[p].body.article_content = resp[q].body.article_content
        /\ resp[p].body.roald_dahl_narration
               # resp[q].body.roald_dahl_narration
        /\ ~req[p].saveThrew /\ ~req[q].saveThrew
        /\ req[p].found = <<>> /\ req[q].found = <<>>
        /\ \E k \in DOMAIN files : files[k] = resp[q].body

(***************************************************************************)
(* A claim about termination of kickoff, checked under SpecCrewFair.       *)
(***************************************************************************)

\* A call of the run of p threw.
SomeCallThrew(p) ==
    \E n \in 1..Len(calls[p]) : calls[p][n].status = "threw"

\* C32: every kickoff that runs ends, Completed or Failed; a Completed one
\* made a call for every task and none of them threw, and a Failed one
\* failed at the call that threw and returned no result.
C32_KickoffEnds ==
    /\ \A p \in Procs :
           (crew[p].state = "Running") ~>
               (crew[p].state \in {"Completed", "Failed"})
    /\ [](\A p \in Procs :
            /\ crew[p].state = "Completed" =>
                   /\ ~SomeCallThrew(p)
                   /\ Len(calls[p]) = Len(crew[p].tasks)
            /\ crew[p].state = "Failed" =>
                   /\ calls[p][Len(calls[p])].status = "threw"
                   /\ crew[p].result = "")

\* C32 witness: one kickoff has completed and another has failed at its
\* first task.
C32_Witness ==
    \E p, q \in Procs :
        /\ crew[p].state = "Completed"
        /\ crew[q].state = "Failed"
        /\ Len(calls[q]) = 1

(***************************************************************************)
(* A further claim about the news service, checked under SpecNews.         *)
(***************************************************************************)

\* getLatestNews of p returned a listing without the isStale tag.
ReturnedUntagged(r) ==
    /\ r.status = "returned"
    /\ "isStale" \notin DOMAIN r

\* C33 as stated: when getLatestNews returns without the isStale tag the
\* listing that the cache file holds, the age of that listing is at most
\* maxAge at the return.
C33_NoOldListingUntagged ==
    [][\A p \in Procs :
          (/\ npc[p] = "meta"
           /\ npc'[p] = "done"
           /\ IsGetLatestNews(p)
           /\ ReturnedUntagged(nres'[p])
           /\ cacheFile.kind = "json"
           /\ cacheFile.id = nres'[p].id) =>
              now - cacheFile.mtime <= maxAge]_vars

\* C33 amended: a listing that getLatestNews returns without the isStale
\* tag was scraped by this call, or was read by a getNews(false) that had
\* found the age of the cache file to be at most maxAge when it checked;
\* what the fallback getNews(true) reads is always returned tagged.
C33_UntaggedWasFreshWhenChecked ==
    /\ [](\A p \in Procs :
            /\ (/\ npc[p] = "done"
                /\ IsGetLatestNews(p)
                /\ ReturnedUntagged(nres[p])) =>
                   /\ op[p].error = <<>>
                   /\ ~op[p].force
                   /\ nres[p].fromCache \/ nres[p].freshlyScraped
            /\ (npc[p] = "read" /\ op[p].error = <<>>) =>
                   /\ ~op[p].force
                   /\ op[p].cacheAge \in 0..maxAge)
    /\ [][\A p \in Procs :
            /\ (npc'[p] = "read" /\ npc[p] # "read"
                    /\ op'[p].error = <<>>) =>
                   /\ npc[p] = "stat"
                   /\ cacheFile.kind # "absent"
                   /\ now - cacheFile.mtime <= maxAge
            /\ (npc'[p] = "meta" /\ npc[p] # "meta") => npc[p] = "read"
            /\ (/\ npc'[p] = "done" /\ npc[p] # "done"
                /\ IsGetLatestNews(p)
                /\ ReturnedUntagged(nres'[p])) =>
                   \/ npc[p] = "meta" /\ nres'[p].fromCache
                   \/ /\ npc[p] = "writeMeta"
                      /\ nres'[p].id = op[p].newsData]_vars

\* C33 witness: a getLatestNews returned the cached listing untagged, its
\* getNews having found the file young enough, and by the return the clock
\* has gone on and the listing is older than maxAge.
C33_Witness ==
    \E p \in Procs :
        /\ npc[p] = "done"
        /\ IsGetLatestNews(p)
        /\ ReturnedUntagged(nres[p])
        /\ nres[p].fromCache
        /\ cacheFile.kind = "json"
        /\ cacheFile.id = nres[p].id
        /\ now - cacheFile.mtime > maxAge

(***************************************************************************)
(* A further claim about the narration route, checked under SpecNarrator.  *)
(***************************************************************************)

\* C34: a response tagged cached: true carries a record that was produced
\* for the link of the request: its news_link is the requested one.
C34_CachedEntryIsForLink ==
    \A p \in Procs :
        (/\ pc[p] = "done"
         /\ resp[p].status = 200
         /\ "cached" \in DOMAIN resp[p].body
         /\ resp[p].body.cached) =>
            resp[p].body.news_link = req[p].news_link

\* C34 amended: a response tagged cached: true is the record found in the
\* file of the key of the requested link alone, a record whose own link
\* and text derive that same key; its news_link may be another link.
C34_CachedEntryIsAtKeyOfLink ==
    \A p \in Procs :
        (/\ pc[p] = "done"
         /\ resp[p].status = 200
         /\ "cached" \in DOMAIN resp[p].body
         /\ resp[p].body.cached) =>
            /\ req[p].found # <<>>
            /\ resp[p].body = [cached |-> TRUE] @@ req[p].found[1]
            /\ CacheKey(req[p].found[1].news_link,
                        <<req[p].found[1].article_content>>) =
                   CacheKey(req[p].news_link, <<>>)

\* C34 witness: a request for one link was answered cached: true with the
\* record that was produced for another link.
C34_Witness ==
    \E p \in Procs :
        /\ pc[p] = "done"
        /\ resp[p].status = 200
        /\ "cached" \in DOMAIN resp[p].body
        /\ resp[p].body.cached
        /\ resp[p].body.news_link # req[p].news_link

(***************************************************************************)
(* A further claim about the story cache, checked under SpecStory.         *)
(***************************************************************************)

\* C35: a story that getStory returns was created at most the expiry time
\* (CACHE_EXPIRY_DAYS) before the call.
C35_NoExpiredStoryReturned ==
    (/\ scall.op = "getStory"
     /\ ~scall.threw
     /\ scall.ret # Null) =>
        scall.at - scall.ret.created_at <= expiryTime

(***************************************************************************)
(* Claims about the storyteller route, checked under SpecStoryteller.      *)
(***************************************************************************)

\* chunks are numbered 1..n, 1 <= n <= maxChunks, has_more false on the
\* last one only.
WellFormedStory(chunks) ==
    /\ Len(chunks) \in 1..maxChunks
    /\ \A i \in 1..Len(chunks) :
           /\ chunks[i].chunk_number = i
           /\ chunks[i].has_more = (i < Len(chunks))

\* C36: the chunks that a POST has saved are numbered 1..n with
\* 1 <= n <= 5 and has_more false on the last only; the step in which a
\* POST saves leaves them as the story of its URL in the cache; and a POST
\* whose first generation call fails answers 500 and saves nothing.
C36_SavedStoryWellFormed ==
    /\ [](\A p \in Handlers :
            ("stored" \in DOMAIN sreq[p] /\ sreq[p].stored # <<>>) =>
                WellFormedStory(sreq[p].stored[1]))
    /\ [][\A p \in Handlers :
            /\ (/\ spc[p] = "generate"
                /\ spc'[p] = "done"
                /\ sreq'[p].stored # <<>>) =>
                   /\ HasStories(cache')
                   /\ cache'.stories[sreq[p].url].story_chunks =
                          sreq'[p].stored[1]
            /\ (/\ spc[p] = "generate"
                /\ spc'[p] = "done"
                /\ sreq[p].allChunks = <<>>) =>
                   /\ sresp'[p].status = 500
                   /\ sreq'[p].stored = <<>>
                   /\ cache' = cache
                   /\ storyFile' = storyFile]_vars

\* C36 witness: generation stopped at the third chunk and the two chunks
\* made so far were saved.
C36_Witness ==
    \E p \in Handlers :
        /\ spc[p] = "done"
        /\ sreq[p].url # ""
        /\ sreq[p].stored # <<>>
        /\ Len(sreq[p].stored[1]) = 2
        /\ HasStories(cache)
        /\ cache.stories[sreq[p].url] # NoStory
        /\ Len(cache.stories[sreq[p].url].story_chunks) = 2

\* C37: while the cache holds for a URL a story of at least one chunk that
\* has not expired, a POST for that URL is answered at once from the
\* cache, whatever chunk it asks for: it goes on to no fetch and no
\* generation call.
C37_CachedStoryServed ==
    [][\A p \in Handlers : \A url \in StoryURLs :
          (/\ isLoaded
           /\ HasStories(cache)
           /\ cache.stories[url] # NoStory
           /\ Len(cache.stories[url].story_chunks) >= 1
           /\ today - cache.stories[url].created_at <= expiryTime
           /\ nposts' = nposts + 1
           /\ sreq'[p].url = url
           /\ spc'[p] # "idle"
           /\ <<sreq'[p], spc'[p]>> # <<sreq[p], spc[p]>>) =>
              /\ spc'[p] = "done"
              /\ sresp'[p].status = 200
              /\ sresp'[p].fromCache]_vars

====
